---- MODULE Spec2Model ----
(***************************************************************************)
(* A model of the OMCP query path: the rule-based SQL validator            *)
(* (src/src/omcp/sql_validator.py) and the query facade that guards the    *)
(* database backend (src/src/omcp/db.py, src/src/omcp/db_robust.py).       *)
(*                                                                         *)
(* Python strings are modelled as sequences of one-character strings, so   *)
(* that str.lower, str.endswith and str.join are computed character by     *)
(* character.  The fixed literal text of an error message is kept as one   *)
(* TLA+ string.  sqlglot is an external library: a SQL text is represented *)
(* by what sg.parse_one makes of it (an exception, or a tree with a root   *)
(* kind and the Table and Column nodes that find_all yields).              *)
(***************************************************************************)
EXTENDS Integers, Sequences, FiniteSets, TLC

VARIABLES
  self,     \* the SQLValidator instance: its three policy fields
  sql,      \* the argument of the pending or latest validate_sql call
  fault,    \* which of the four checks fails in that call (0: none)
  ret,      \* what the latest validate_sql call did: outcome, value, checks run
  log,      \* the argument and the value of every validate_sql call so far
  impl,     \* the database class in use: "db" (db.py) or "db_robust"
  _conn,    \* OmopDatabase._conn: "None" or a connection object, "open"
  conn,     \* OmopDatabase.conn (db.py only)
  _connect_retry_delay,  \* OmopDatabase._connect_retry_delay, in seconds
  cache,    \* the lru_cache of read_query (db.py only): the memoized queries
  pc,       \* where the running read_query call is; "idle" between calls
  attempt,  \* the loop variable of _reconnect
  retrying, \* whether the call is in its except branch (the second try)
  used,     \* what the running or latest read_query call asked of the backend
  result,   \* how the latest read_query call ended
  response, \* what the Select_Query tool returned for the latest call
  statement,       \* the statement given to transpile_query, as it parses
  source_dialect,  \* transpile_query's source_dialect
  target_dialect,  \* transpile_query's target_dialect
  tree,            \* the tree of transpile_query and of the rewrite loop
  tpc,             \* where the transpile_query call is
  passes,          \* the iterations of the rewrite loop made so far
  old_sql,         \* the text of the tree before the latest transform pass
  new_sql,         \* the text of the tree after the latest transform pass
  transpiled,      \* the text transpile_query returns
  _conn_lock,      \* OmopDatabase._conn_lock: "free" or the thread holding it
  threads,         \* where each thread is in its call, and what it saw
  lru,             \* the lru_cache of read_query, as one query sees it
  wrapper,         \* where the capture_context wrapper of a tool call is
  route            \* where the /query or /sql request is, and what it did

valvars == <<self, sql, fault, ret, log>>

dbvars ==
  <<impl, _conn, conn, _connect_retry_delay, cache, pc, attempt, retrying,
    used, result, response>>

trvars ==
  <<statement, source_dialect, target_dialect, tree, tpc, passes, old_sql,
    new_sql, transpiled>>

thvars == <<_conn_lock, threads>>

lruvars == <<lru>>

appvars == <<wrapper, route>>

vars == <<valvars, dbvars, trvars, thvars, lruvars, appvars>>

(***************************************************************************)
(* Bounds of the model.                                                    *)
(***************************************************************************)
MaxTables == 2    \* Table nodes in one generated statement
MaxColumns == 2   \* Column nodes in one generated statement
MaxCalls == 3     \* validate_sql calls in one behaviour of SpecRepeat
MaxAdds == 11     \* additions in one chain d + 1 + ... + 1
MaxNest == 2      \* range intersections in one chain r * r * ... * r

\* the calls a thread makes
MaxThreadCalls == 1

(***************************************************************************)
(* Python str operations.                                                  *)
(***************************************************************************)
UPPERCASE ==
  <<"A","B","C","D","E","F","G","H","I","J","K","L","M",
    "N","O","P","Q","R","S","T","U","V","W","X","Y","Z">>

LOWERCASE ==
  <<"a","b","c","d","e","f","g","h","i","j","k","l","m",
    "n","o","p","q","r","s","t","u","v","w","x","y","z">>

\* The lower-case letter of each upper-case letter.
ToLower ==
  [c \in {UPPERCASE[i] : i \in DOMAIN UPPERCASE} |->
     LOWERCASE[CHOOSE i \in DOMAIN UPPERCASE : UPPERCASE[i] = c]]

lower_char(c) == IF c \in DOMAIN ToLower THEN ToLower[c] ELSE c

\* str.lower
lower(s) == [i \in 1..Len(s) |-> lower_char(s[i])]

\* str.endswith
endswith(s, suffix) ==
  /\ Len(s) >= Len(suffix)
  /\ SubSeq(s, Len(s) - Len(suffix) + 1, Len(s)) = suffix

\* sep.join(items)
RECURSIVE join(_, _)
join(sep, items) ==
  IF items = <<>> THEN <<>>
  ELSE IF Len(items) = 1 THEN items[1]
  ELSE items[1] \o sep \o join(sep, Tail(items))

\* list(map(f, xs)) for f = str.lower
map_lower(xs) == [i \in 1..Len(xs) |-> lower(xs[i])]

\* x in xs, for a Python list xs
In(x, xs) == \E i \in 1..Len(xs) : xs[i] = x

\* sub in s, for Python strings
Contains(s, sub) ==
  \E i \in 0..(Len(s) - Len(sub)) : SubSeq(s, i + 1, i + Len(sub)) = sub

Range(xs) == {xs[i] : i \in 1..Len(xs)}

SEP == <<",", " ">>

SUFFIX_source_value == <<"_","s","o","u","r","c","e","_","v","a","l","u","e">>

SUFFIX_source_concept_id ==
  <<"_","s","o","u","r","c","e","_","c","o","n","c","e","p","t","_","i","d">>

(***************************************************************************)
(* The canonical OMOP CDM table names.                                     *)
(***************************************************************************)
OMOP_TABLES ==
  <<
     <<"c","a","r","e","_","s","i","t","e">>,  \* care_site
     <<"c","d","m","_","s","o","u","r","c","e">>,  \* cdm_source
     <<"c","o","n","c","e","p","t">>,  \* concept
     <<"c","o","n","c","e","p","t","_","a","n","c","e","s","t","o","r">>,  \* concept_ancestor
     <<"c","o","n","c","e","p","t","_","c","l","a","s","s">>,  \* concept_class
     <<"c","o","n","c","e","p","t","_","r","e","l","a","t","i","o","n","s","h","i","p">>,  \* concept_relationship
     <<"c","o","n","c","e","p","t","_","s","y","n","o","n","y","m">>,  \* concept_synonym
     <<"c","o","n","d","i","t","i","o","n","_","e","r","a">>,  \* condition_era
     <<"c","o","n","d","i","t","i","o","n","_","o","c","c","u","r","r","e","n","c","e">>,  \* condition_occurrence
     <<"c","o","s","t">>,  \* cost
     <<"d","e","a","t","h">>,  \* death
     <<"d","e","v","i","c","e","_","e","x","p","o","s","u","r","e">>,  \* device_exposure
     <<"d","o","m","a","i","n">>,  \* domain
     <<"d","o","s","e","_","e","r","a">>,  \* dose_era
     <<"d","r","u","g","_","e","r","a">>,  \* drug_era
     <<"d","r","u","g","_","e","x","p","o","s","u","r","e">>,  \* drug_exposure
     <<"d","r","u","g","_","s","t","r","e","n","g","t","h">>,  \* drug_strength
     <<"e","p","i","s","o","d","e">>,  \* episode
     <<"e","p","i","s","o","d","e","_","e","v","e","n","t">>,  \* episode_event
     <<"f","a","c","t","_","r","e","l","a","t","i","o","n","s","h","i","p">>,  \* fact_relationship
     <<"l","o","c","a","t","i","o","n">>,  \* location
     <<"m","e","a","s","u","r","e","m","e","n","t">>,  \* measurement
     <<"m","e","t","a","d","a","t","a">>,  \* metadata
     <<"n","o","t","e">>,  \* note
     <<"n","o","t","e","_","n","l","p">>,  \* note_nlp
     <<"o","b","s","e","r","v","a","t","i","o","n">>,  \* observation
     <<"o","b","s","e","r","v","a","t","i","o","n","_","p","e","r","i","o","d">>,  \* observation_period
     <<"p","a","y","e","r","_","p","l","a","n","_","p","e","r","i","o","d">>,  \* payer_plan_period
     <<"p","e","r","s","o","n">>,  \* person
     <<"p","r","o","c","e","d","u","r","e","_","o","c","c","u","r","r","e","n","c","e">>,  \* procedure_occurrence
     <<"p","r","o","v","i","d","e","r">>,  \* provider
     <<"r","e","l","a","t","i","o","n","s","h","i","p">>,  \* relationship
     <<"s","p","e","c","i","m","e","n">>,  \* specimen
     <<"v","i","s","i","t","_","d","e","t","a","i","l">>,  \* visit_detail
     <<"v","i","s","i","t","_","o","c","c","u","r","r","e","n","c","e">>,  \* visit_occurrence
     <<"v","o","c","a","b","u","l","a","r","y">>  \* vocabulary
  >>

(***************************************************************************)
(* Exceptions (src/src/omcp/exceptions.py).  An exception value is its     *)
(* class and its message; the message is <<text before, computed part,     *)
(* text after>>.  None is the value Python's None.                         *)
(***************************************************************************)
None == [type |-> "NoneType", message |-> <<"", <<>>, "">>]

QueryError(type, before, computed, after) ==
  [type |-> type, message |-> <<before, computed, after>>]

NotSelectQueryError(text) == QueryError("NotSelectQueryError", text, <<>>, "")

TableNotFoundError(before, computed) ==
  QueryError("TableNotFoundError", before, computed, "")

ColumnNotFoundError(text) == QueryError("ColumnNotFoundError", text, <<>>, "")

UnauthorizedTableError(before, computed) ==
  QueryError("UnauthorizedTableError", before, computed, "")

UnauthorizedColumnError(before, computed, after) ==
  QueryError("UnauthorizedColumnError", before, computed, after)

\* bool(v): None is false; the exception classes define neither __bool__
\* nor __len__, so every exception object is true
Truthy(v) == v.type # "NoneType"

\* A variant that filters nothing out.
KeepNone(xs) == xs

\* list(filter(None, xs))
FilterNone(xs) == SelectSeq(xs, Truthy)

(***************************************************************************)
(* SQLValidator (src/src/omcp/sql_validator.py).                           *)
(***************************************************************************)
\* An optional list argument: the default None, or a list of strings.
NoneArg == [is_none |-> TRUE, list |-> <<>>]

ListArg(xs) == [is_none |-> FALSE, list |-> xs]

\* __init__: a list argument is lower-cased, a missing one (None) becomes []
\* A variant that keeps the exclusion lists in the letter case they are given in.
SQLValidatorKeepingCase(allow_source_value_columns, exclude_tables, exclude_columns) ==
  [allow_source_value_columns |-> allow_source_value_columns,
   exclude_tables |-> IF ~exclude_tables.is_none THEN exclude_tables.list ELSE <<>>,
   exclude_columns |->
     IF ~exclude_columns.is_none THEN exclude_columns.list ELSE <<>>]

SQLValidator(allow_source_value_columns, exclude_tables, exclude_columns) ==
  [allow_source_value_columns |-> allow_source_value_columns,
   exclude_tables |->
     IF ~exclude_tables.is_none THEN map_lower(exclude_tables.list) ELSE <<>>,
   exclude_columns |->
     IF ~exclude_columns.is_none THEN map_lower(exclude_columns.list) ELSE <<>>]

\* A variant without the statement-kind check.
AnyStatementKind(parsed_sql) == None

_check_is_select_query(parsed_sql) ==
  IF parsed_sql.root # "Select"
    THEN NotSelectQueryError(
           "Only SELECT statements are allowed for security reasons.")
    ELSE None

\* A variant comparing the name as written, without str.lower.
OmopTableCaseSensitive(tables) ==
  LET NotOmop(name) == ~In(name, OMOP_TABLES)
      not_omop_tables == map_lower(SelectSeq(tables, NotOmop))
  IN IF not_omop_tables # <<>>
       THEN TableNotFoundError("Tables not found in OMOP CDM: ",
                               join(SEP, not_omop_tables))
       ELSE None

_check_is_omop_table(tables) ==
  LET NotOmop(name) == ~In(lower(name), OMOP_TABLES)
      not_omop_tables == map_lower(SelectSeq(tables, NotOmop))
  IN IF not_omop_tables # <<>>
       THEN TableNotFoundError("Tables not found in OMOP CDM: ",
                               join(SEP, not_omop_tables))
       ELSE None

\* A variant comparing the name as written, without str.lower.
UnauthorizedTablesCaseSensitive(validator, tables) ==
  LET Excluded(name) == In(name, validator.exclude_tables)
      unauthorized_tables == map_lower(SelectSeq(tables, Excluded))
  IN IF unauthorized_tables # <<>>
       THEN UnauthorizedTableError("Unauthorized tables in query: ",
                                   join(SEP, unauthorized_tables))
       ELSE None

_check_unauthorized_tables(validator, tables) ==
  LET Excluded(name) == In(lower(name), validator.exclude_tables)
      unauthorized_tables == map_lower(SelectSeq(tables, Excluded))
  IN IF unauthorized_tables # <<>>
       THEN UnauthorizedTableError("Unauthorized tables in query: ",
                                   join(SEP, unauthorized_tables))
       ELSE None

\* A variant that consults the table list instead of the column list.
UnauthorizedColumnsFromTableList(validator, columns) ==
  LET Excluded(name) == In(lower(name), validator.exclude_tables)
      unauthorized_columns == map_lower(SelectSeq(columns, Excluded))
  IN IF unauthorized_columns # <<>>
       THEN UnauthorizedColumnError("Unauthorized columns in query: ",
                                    join(SEP, unauthorized_columns), "")
       ELSE None

_check_unauthorized_columns(validator, columns) ==
  LET Excluded(name) == In(lower(name), validator.exclude_columns)
      unauthorized_columns == map_lower(SelectSeq(columns, Excluded))
  IN IF unauthorized_columns # <<>>
       THEN UnauthorizedColumnError("Unauthorized columns in query: ",
                                    join(SEP, unauthorized_columns), "")
       ELSE None

SourceValueText == "Source value columns are not allowed: "

SourceValueAdvice ==
  ". Use the corresponding concept_id columns with a join on the concept table instead. Inform the user that this is a security measure to prevent data leakage."

\* A variant that does not read allow_source_value_columns.
SourceValueColumnsIgnoringFlag(validator, columns) ==
  LET IsSource(name) ==
        \/ endswith(lower(name), SUFFIX_source_value)
        \/ endswith(lower(name), SUFFIX_source_concept_id)
      source_value_columns == map_lower(SelectSeq(columns, IsSource))
  IN IF source_value_columns # <<>>
       THEN UnauthorizedColumnError(SourceValueText,
                                    join(SEP, source_value_columns),
                                    SourceValueAdvice)
       ELSE None

\* A variant that tests the _source_value suffix alone.
SourceValueSuffixOnly(validator, columns) ==
  IF validator.allow_source_value_columns THEN None
  ELSE
    LET IsSource(name) == endswith(lower(name), SUFFIX_source_value)
        source_value_columns == map_lower(SelectSeq(columns, IsSource))
    IN IF source_value_columns # <<>>
         THEN UnauthorizedColumnError(SourceValueText,
                                      join(SEP, source_value_columns),
                                      SourceValueAdvice)
         ELSE None

_check_source_value_columns(validator, columns) ==
  IF validator.allow_source_value_columns THEN None
  ELSE
    LET IsSource(name) ==
          \/ endswith(lower(name), SUFFIX_source_value)
          \/ endswith(lower(name), SUFFIX_source_concept_id)
        source_value_columns == map_lower(SelectSeq(columns, IsSource))
    IN IF source_value_columns # <<>>
         THEN UnauthorizedColumnError(SourceValueText,
                                      join(SEP, source_value_columns),
                                      SourceValueAdvice)
         ELSE None

\* A variant where the list outlives the call: it starts as the previous result.
ErrorsKeptBetweenCalls == ret.value

\* errors = []
InitialErrors == <<>>

\* The names of the four checks of lines 218-228, in the order they are called.
CheckNames ==
  <<"_check_is_omop_table", "_check_unauthorized_tables",
    "_check_unauthorized_columns", "_check_source_value_columns">>

(***************************************************************************)
(* The try block of validate_sql (lines 198-228).  The result is the       *)
(* exception that leaves the block (None when it runs to its end), the     *)
(* errors list at that moment and the steps that were run.  failing = k > 0  *)
(* makes the k-th of the four checks raise instead of returning; 0 is   *)
(* the code running without such a failure.                                *)
(***************************************************************************)
TryBlock(validator, q, failing) ==
  IF q.parse # "ok"
    THEN [exc |-> QueryError(q.parse, "Invalid expression", <<>>, ""),
          errors |-> InitialErrors,
          ran |-> <<"parse_one">>]
  ELSE
    LET is_not_select_query == _check_is_select_query(q)
    IN IF Truthy(is_not_select_query)
         THEN [exc |-> is_not_select_query,
               errors |-> InitialErrors,
               ran |-> <<"parse_one", "_check_is_select_query">>]
       ELSE
         LET tables == q.tables      \* list(parsed_sql.find_all(exp.Table))
             columns == q.columns    \* list(parsed_sql.find_all(exp.Column))
             e1 == IF tables = <<>>
                     THEN Append(InitialErrors,
                            TableNotFoundError("No tables found in the query.",
                                               <<>>))
                     ELSE InitialErrors
             e2 == IF columns = <<>>
                     THEN Append(e1,
                            ColumnNotFoundError("No columns found in the query."))
                     ELSE e1
             appended == <<_check_is_omop_table(tables),
                           _check_unauthorized_tables(validator, tables),
                           _check_unauthorized_columns(validator, columns),
                           _check_source_value_columns(validator, columns)>>
             entered == IF failing = 0 THEN Len(CheckNames) ELSE failing
             returned == IF failing = 0 THEN Len(CheckNames) ELSE failing - 1
         IN [exc |-> IF failing = 0 THEN None
                     ELSE QueryError("Exception", "check failed", <<>>, ""),
             errors |-> e2 \o SubSeq(appended, 1, returned),
             ran |-> <<"parse_one", "_check_is_select_query", "find_all">>
                       \o SubSeq(CheckNames, 1, entered)]

\* A variant whose handlers drop the exception (except ...: pass).
ExceptAndPass(exc, errors) == [errors |-> errors, pending |-> None]

\* The classes of the exceptions of the model; all derive from Exception.
ExceptionClasses ==
  {"ParseError", "TokenError", "Exception", "NotSelectQueryError",
   "TableNotFoundError", "ColumnNotFoundError", "UnauthorizedTableError",
   "UnauthorizedColumnError"}

\* except sg.ParseError as e: errors.append(e)
\* except Exception as e: errors.append(e)
\* The result is the errors list and the exception still pending after the
\* clauses (None when a clause handled it or none was raised).
ExceptClauses(exc, errors) ==
  IF exc = None THEN [errors |-> errors, pending |-> None]
  ELSE IF exc.type = "ParseError"
    THEN [errors |-> Append(errors, exc), pending |-> None]
  ELSE IF exc.type \in ExceptionClasses
    THEN [errors |-> Append(errors, exc), pending |-> None]
  ELSE [errors |-> errors, pending |-> exc]

\* A variant that returns the list without removing the None entries.
FinallyUnfiltered(pending, errors) == [outcome |-> "return", value |-> errors]

\* finally: errors = list(filter(None, errors)); return errors
\* (a return in a finally clause ends the call with that value and discards
\* an exception that is still pending)
Finally(pending, errors) == [outcome |-> "return", value |-> FilterNone(errors)]

validate_sql(validator, q, failing) ==
  LET t == TryBlock(validator, q, failing)
      h == ExceptClauses(t.exc, t.errors)
      f == Finally(h.pending, h.errors)
  IN [outcome |-> f.outcome, value |-> f.value, ran |-> t.ran]

(***************************************************************************)
(* Inputs.  Names are written in the letter case a caller may use.         *)
(***************************************************************************)
S_person == <<"p","e","r","s","o","n">>
S_Person == <<"P","e","r","s","o","n">>
S_PERSON == <<"P","E","R","S","O","N">>
S_concept == <<"c","o","n","c","e","p","t">>
S_observation == <<"o","b","s","e","r","v","a","t","i","o","n">>
S_users == <<"u","s","e","r","s">>
S_Visits == <<"V","i","s","i","t","s">>
S_id == <<"i","d">>
S_person_id == <<"p","e","r","s","o","n","_","i","d">>
S_year_of_birth == <<"y","e","a","r","_","o","f","_","b","i","r","t","h">>
S_YEAR_OF_BIRTH == <<"Y","E","A","R","_","O","F","_","B","I","R","T","H">>
S_Year_Of_Birth == <<"Y","e","a","r","_","O","f","_","B","i","r","t","h">>
S_gender_concept_id ==
  <<"g","e","n","d","e","r","_","c","o","n","c","e","p","t","_","i","d">>
S_gender_source_value ==
  <<"g","e","n","d","e","r","_","s","o","u","r","c","e","_","v","a","l","u","e">>
S_gender_source_concept_id ==
  <<"g","e","n","d","e","r","_","s","o","u","r","c","e","_",
    "c","o","n","c","e","p","t","_","i","d">>
S_concept_id == <<"c","o","n","c","e","p","t","_","i","d">>
S_concept_name == <<"c","o","n","c","e","p","t","_","n","a","m","e">>
S_GENDER_SOURCE_CONCEPT_ID ==
  <<"G","E","N","D","E","R","_","S","O","U","R","C","E","_",
    "C","O","N","C","E","P","T","_","I","D">>

TableNames == {S_Person, S_concept, S_users, S_Visits}

ColumnNames ==
  {S_person_id, S_Year_Of_Birth, S_gender_source_value,
   S_GENDER_SOURCE_CONCEPT_ID}

SeqsUpTo(S, n) == UNION {[1..k -> S] : k \in 0..n}

\* What sg.parse_one makes of a SQL text: it raises ParseError, it raises
\* another exception (the tokenizer's TokenError), or it returns a tree.
Unparsable ==
  {[parse |-> p, root |-> "None", tables |-> <<>>, columns |-> <<>>] :
     p \in {"ParseError", "TokenError"}}

Statements ==
  [parse : {"ok"}, root : {"Select", "Insert"},
   tables : SeqsUpTo(TableNames, MaxTables),
   columns : SeqsUpTo(ColumnNames, MaxColumns)]

Queries == Unparsable \cup Statements

\* The arguments the validator is constructed with.
ExcludeTablesArgs == {NoneArg, ListArg(<<S_PERSON, S_observation>>)}

ExcludeColumnsArgs ==
  {NoneArg, ListArg(<<S_YEAR_OF_BIRTH, S_gender_source_concept_id>>)}

Validators ==
  {SQLValidator(a, et, ec) :
     a \in BOOLEAN, et \in ExcludeTablesArgs, ec \in ExcludeColumnsArgs}

NoQuery == [parse |-> "none", root |-> "None", tables |-> <<>>, columns |-> <<>>]

NoReturn == [outcome |-> "none", value |-> <<>>, ran |-> <<>>]

(***************************************************************************)
(* The statements of tests/test_sql_validator.py, as parsed, and one text  *)
(* that does not parse.                                                    *)
(***************************************************************************)
Select(tables, columns) ==
  [parse |-> "ok", root |-> "Select", tables |-> tables, columns |-> columns]

\* SELECT person_id, gender_concept_id FROM person WHERE year_of_birth > 1970
Q_valid ==
  Select(<<S_person>>, <<S_person_id, S_gender_concept_id, S_year_of_birth>>)

\* INSERT INTO person (person_id) VALUES (1)
Q_insert ==
  [parse |-> "ok", root |-> "Insert", tables |-> <<S_person>>, columns |-> <<>>]

\* SELECT id FROM users
Q_users == Select(<<S_users>>, <<S_id>>)

\* SELECT person_id FROM person
Q_person == Select(<<S_person>>, <<S_person_id>>)

\* SELECT year_of_birth FROM person
Q_year_of_birth == Select(<<S_person>>, <<S_year_of_birth>>)

\* SELECT person_id, gender_source_value FROM person
Q_source_value == Select(<<S_person>>, <<S_person_id, S_gender_source_value>>)

\* SELECT person_id, gender_source_concept_id FROM person
Q_source_concept_id ==
  Select(<<S_person>>, <<S_person_id, S_gender_source_concept_id>>)

\* SELECT p.person_id, p.gender_concept_id, c.concept_name FROM person p
\* JOIN concept c ON p.gender_concept_id = c.concept_id
\* WHERE p.year_of_birth > 1970
Q_join ==
  Select(<<S_person, S_concept>>,
         <<S_person_id, S_gender_concept_id, S_concept_name,
           S_year_of_birth, S_gender_concept_id, S_concept_id>>)

Q_unparsable ==
  [parse |-> "ParseError", root |-> "None", tables |-> <<>>, columns |-> <<>>]

\* SELECT gender_source_value FROM users: two checks fail
Q_users_source_value == Select(<<S_users>>, <<S_gender_source_value>>)

TestQueries ==
  {Q_valid, Q_insert, Q_users, Q_person, Q_year_of_birth, Q_source_value,
   Q_source_concept_id, Q_join, Q_unparsable}

(***************************************************************************)
(* The transpiler (src/src/omcp/transpiler.py).  A statement is the tree   *)
(* sqlglot.parse_one returns.  A node has the name of its sqlglot class    *)
(* (kind), its own text (name: an identifier, a literal, a function name,  *)
(* the type of a Cast, the unit of an Extract) and its child expressions   *)
(* in the order sqlglot visits them (args).                                *)
(***************************************************************************)
Node(kind, name, args) == [kind |-> kind, name |-> name, args |-> args]

\* Python's None where a function returns no expression
NoNode == Node("None", "", <<>>)

Identifier(this) == Node("Identifier", this, <<>>)

\* a column written as one name, as table.column or as db.table.column;
\* the children are this, table, db
Column(this) == Node("Column", "", <<Identifier(this)>>)

Column2(table, this) ==
  Node("Column", "", <<Identifier(this), Identifier(table)>>)

Column3(db, table, this) ==
  Node("Column", "", <<Identifier(this), Identifier(table), Identifier(db)>>)

Table(this) == Node("Table", this, <<>>)

Literal_number(this) == Node("Literal.number", this, <<>>)

Literal_string(this) == Node("Literal.string", this, <<>>)

Placeholder(this) == Node("Placeholder", this, <<>>)

Parameter(this) == Node("Parameter", this, <<>>)

\* CAST(this AS to); to is the name of the DataType
Cast(this, to) == Node("Cast", to, <<this>>)

\* EXTRACT(this FROM expression)
Extract(this, expression) == Node("Extract", this, <<expression>>)

Binary(kind, this, expression) == Node(kind, "", <<this, expression>>)

Sub(this, expression) == Binary("Sub", this, expression)

Add(this, expression) == Binary("Add", this, expression)

Mul(this, expression) == Binary("Mul", this, expression)

Div(this, expression) == Binary("Div", this, expression)

And(this, expression) == Binary("And", this, expression)

LTE(this, expression) == Binary("LTE", this, expression)

GT(this, expression) == Binary("GT", this, expression)

Is(this, expression) == Binary("Is", this, expression)

Dot(this, expression) == Binary("Dot", this, expression)

ArrayOverlaps(this, expression) == Binary("ArrayOverlaps", this, expression)

PropertyEQ(this, expression) == Binary("PropertyEQ", this, expression)

Paren(this) == Node("Paren", "", <<this>>)

Not(this) == Node("Not", "", <<this>>)

Abs(this) == Node("Abs", "", <<this>>)

Anonymous(this, expressions) == Node("Anonymous", this, expressions)

Struct(expressions) == Node("Struct", "", expressions)

\* INTERVAL this unit
Interval(this, unit) == Node("Interval", unit, <<this>>)

\* the frame of a window: kind BETWEEN CURRENT ROW AND end
WindowSpec(kind, end) == Node("WindowSpec", kind, <<end>>)

\* this OVER (ORDER BY order spec)
Window(this, order, spec) == Node("Window", "", <<this, order, spec>>)

From(this) == Node("From", "", <<this>>)

Join(this, on) == Node("Join", "", <<this, on>>)

Where(this) == Node("Where", "", <<this>>)

\* SELECT expressions, then the FROM, JOIN and WHERE clauses
SelectStatement(expressions, clauses) == Node("Select", "", expressions \o clauses)

\* the statement classes exp.LTE, exp.LT, exp.GTE, exp.GT, exp.EQ, exp.NEQ
Comparisons == {"LTE", "LT", "GTE", "GT", "EQ", "NEQ"}

\* node.left and node.right of a binary node
left(node) == node.args[1]

right(node) == node.args[2]

\* str.upper, on the words of the model
upper(word) ==
  CASE word \in {"year", "Year", "YEAR"} -> "YEAR"
    [] word \in {"epoch", "EPOCH"} -> "EPOCH"
    [] word \in {"daterange", "DATERANGE"} -> "DATERANGE"
    [] word \in {"empty", "EMPTY"} -> "EMPTY"
    [] word = "days" -> "DAYS"
    [] OTHER -> word

\* The operator each binary class is printed with.
Operator(kind) ==
  CASE kind = "Sub" -> " - "
    [] kind = "Add" -> " + "
    [] kind = "Mul" -> " * "
    [] kind = "Div" -> " / "
    [] kind = "And" -> " AND "
    [] kind = "LTE" -> " <= "
    [] kind = "LT" -> " < "
    [] kind = "GTE" -> " >= "
    [] kind = "GT" -> " > "
    [] kind = "EQ" -> " = "
    [] kind = "NEQ" -> " <> "
    [] kind = "Is" -> " IS "
    [] kind = "Dot" -> "."
    [] kind = "ArrayOverlaps" -> " && "
    [] kind = "PropertyEQ" -> " := "

BinaryKinds ==
  {"Sub", "Add", "Mul", "Div", "And", "Is", "Dot", "ArrayOverlaps",
   "PropertyEQ"} \cup Comparisons

ClauseKinds == {"From", "Join", "Where"}

Reverse(xs) == [i \in 1..Len(xs) |-> xs[Len(xs) + 1 - i]]

\* tree.tree_sql(): the text of a tree, as a sequence of pieces.  It is what the
\* loop of _transform_date_operations compares; it is not one-to-one
\* (a.b printed from a Column and from a Dot is the same text).
RECURSIVE tree_sql(_)
tree_sql(node) ==
  LET k == node.kind
      texts == [i \in 1..Len(node.args) |-> tree_sql(node.args[i])]
      IsClause(n) == n.kind \in ClauseKinds
      IsProjection(n) == n.kind \notin ClauseKinds
      textsOf(ns) == [i \in 1..Len(ns) |-> tree_sql(ns[i])]
  IN CASE k \in {"Identifier", "Literal.number", "Table"} -> <<node.name>>
       [] k = "Literal.string" -> <<"'", node.name, "'">>
       [] k = "Placeholder" -> <<":", node.name>>
       [] k = "Parameter" -> <<"$", node.name>>
       [] k = "Column" -> join(<<".">>, Reverse(texts))
       [] k = "Cast" -> <<"CAST(">> \o texts[1] \o <<" AS ", node.name, ")">>
       [] k = "Extract" ->
            <<"EXTRACT(", node.name, " FROM ">> \o texts[1] \o <<")">>
       [] k \in BinaryKinds -> texts[1] \o <<Operator(k)>> \o texts[2]
       [] k = "Paren" -> <<"(">> \o texts[1] \o <<")">>
       [] k = "Not" -> <<"NOT ">> \o texts[1]
       [] k = "Abs" -> <<"ABS(">> \o texts[1] \o <<")">>
       [] k = "Anonymous" -> <<node.name, "(">> \o join(<<", ">>, texts) \o <<")">>
       [] k = "Struct" -> <<"STRUCT(">> \o join(<<", ">>, texts) \o <<")">>
       [] k = "Interval" -> <<"INTERVAL ">> \o texts[1] \o <<" ", node.name>>
       [] k = "WindowSpec" ->
            <<node.name, " BETWEEN CURRENT ROW AND ">> \o texts[1]
       [] k = "Window" ->
            texts[1] \o <<" OVER (ORDER BY ">> \o texts[2] \o <<" ">>
              \o texts[3] \o <<")">>
       [] k = "From" -> <<"FROM ">> \o texts[1]
       [] k = "Join" -> <<"JOIN ">> \o texts[1] \o <<" ON ">> \o texts[2]
       [] k = "Where" -> <<"WHERE ">> \o texts[1]
       [] k = "Select" ->
            <<"SELECT ">>
              \o join(<<", ">>, textsOf(SelectSeq(node.args, IsProjection)))
              \o join(<<>>, [i \in 1..Len(SelectSeq(node.args, IsClause)) |->
                               <<" ">> \o tree_sql(SelectSeq(node.args, IsClause)[i])])
       [] OTHER -> <<"?">>

_create_datediff(l, r) == Anonymous("DATEDIFF", <<l, r>>)

\* A variant that keeps the cast.
KeepTimestampCast(expr) == expr

_unwrap_timestamp_cast(expr) ==
  IF expr.kind = "Cast" /\ expr.name = "TIMESTAMP" THEN expr.args[1] ELSE expr

\* A variant that takes no expression for a year.
NeverYearExtract(expr) == FALSE

_is_year_extract(expr) == expr.kind = "Extract" /\ upper(expr.name) = "YEAR"

\* The pair (left, right), or (None, None).
_extract_date_operands_from_sub(sub_expr) ==
  IF sub_expr.kind = "Sub"
    THEN LET l == _unwrap_timestamp_cast(left(sub_expr))
             r == _unwrap_timestamp_cast(right(sub_expr))
         IN IF _is_year_extract(l) \/ _is_year_extract(r)
              THEN <<NoNode, NoNode>>
              ELSE <<l, r>>
    ELSE <<NoNode, NoNode>>

\* The expression inside EXTRACT(epoch FROM ...) of
\* CAST(EXTRACT(epoch FROM ...) / 86400 AS BIGINT), or None.
_is_epoch_days_pattern(node) ==
  IF node.kind # "Cast" THEN NoNode
  ELSE IF node.name # "BIGINT" THEN NoNode
  ELSE LET inner == node.args[1]
       IN IF inner.kind # "Div" THEN NoNode
          ELSE IF right(inner).kind # "Literal.number" THEN NoNode
          ELSE IF right(inner).name # "86400" THEN NoNode
          ELSE IF left(inner).kind # "Extract" THEN NoNode
          ELSE IF upper(left(inner).name) # "EPOCH" THEN NoNode
          ELSE left(inner).args[1]

\* The subtraction inside ABS(...) or ABS((...)), or None.
_is_abs_with_subtraction(node) ==
  IF node.kind = "Abs"
    THEN LET inner == node.args[1]
         IN IF inner.kind = "Sub" THEN inner
            ELSE IF inner.kind = "Paren" /\ inner.args[1].kind = "Sub"
              THEN inner.args[1]
            ELSE NoNode
    ELSE NoNode

\* A variant that accepts number literals alone.
NumberLiteralsOnly(node) == node.kind = "Literal.number"

_is_numeric_value(node) ==
  \/ node.kind = "Literal.number"
  \/ node.kind \in {"Placeholder", "Parameter"}
  \/ /\ node.kind = "Cast"
     /\ node.args[1].kind \in {"Literal.number", "Placeholder", "Parameter"}

\* Whether node is a DATERANGE(...) call with its two dates.
_is_daterange_call(node) ==
  /\ node.kind = "Anonymous"
  /\ upper(node.name) = "DATERANGE"
  /\ Len(node.args) >= 2

_create_struct_for_range(start_date, end_date) ==
  Struct(<<PropertyEQ(Identifier("start"), start_date),
           PropertyEQ(Identifier("end"), end_date)>>)

_is_range_overlap_operator(node) == node.kind = "ArrayOverlaps"

\* A variant that takes neither a multiplication nor a struct for a range.
LooksLikeRangeReferencesOnly(e) ==
  LET expr == IF e.kind = "Paren" THEN e.args[1] ELSE e
  IN IF expr.kind = "Dot"
       THEN ~(right(expr).kind = "Identifier"
              /\ right(expr).name \in {"start", "end"})
     ELSE IF expr.kind = "Column"
       THEN ~(expr.args[1].name \in {"start", "end"})
     ELSE FALSE

looks_like_range(e) ==
  LET expr == IF e.kind = "Paren" THEN e.args[1] ELSE e
  IN IF expr.kind \in {"Mul", "Struct"} THEN TRUE
     ELSE IF expr.kind = "Dot"
       THEN ~(right(expr).kind = "Identifier"
              /\ right(expr).name \in {"start", "end"})
     ELSE IF expr.kind = "Column"
       THEN \* a column named start or end is a field access; any other
            \* column, with or without table and db, is a range
            ~(expr.args[1].name \in {"start", "end"})
     ELSE FALSE

\* A variant that is content with one operand that looks like a range.
EitherOperandLooksLikeRange(node) ==
  /\ node.kind = "Mul"
  /\ looks_like_range(left(node)) \/ looks_like_range(right(node))

_is_range_intersection_operator(node) ==
  /\ node.kind = "Mul"
  /\ looks_like_range(left(node)) /\ looks_like_range(right(node))

_unwrap_paren(expr) == IF expr.kind = "Paren" THEN expr.args[1] ELSE expr

_create_range_overlap_condition(l, r) ==
  LET left_range == _unwrap_paren(l)
      right_range == _unwrap_paren(r)
      left_start == Dot(left_range, Identifier("start"))
      left_end == Dot(left_range, Identifier("end"))
      right_start == Dot(right_range, Identifier("start"))
      right_end == Dot(right_range, Identifier("end"))
  IN And(LTE(left_start, right_end), LTE(right_start, left_end))

_create_range_intersection(l, r) ==
  LET left_range == _unwrap_paren(l)
      right_range == _unwrap_paren(r)
      left_start == Dot(left_range, Identifier("start"))
      left_end == Dot(left_range, Identifier("end"))
      right_start == Dot(right_range, Identifier("start"))
      right_end == Dot(right_range, Identifier("end"))
      greatest_start == Anonymous("GREATEST", <<left_start, right_start>>)
      least_end == Anonymous("LEAST", <<left_end, right_end>>)
  IN Struct(<<PropertyEQ(Identifier("start"), greatest_start),
              PropertyEQ(Identifier("end"), least_end)>>)

\* str.split, on the interval texts of the model
split(text) ==
  CASE text = "30 days" -> <<"30", "days">>
    [] OTHER -> <<text>>

\* The frame end '30 days'::interval FOLLOWING of a RANGE frame becomes
\* INTERVAL 30 DAYS; the node is changed in place.
_transform_window_spec(node) ==
  IF /\ node.kind = "WindowSpec"
     /\ node.name = "RANGE"
     /\ node.args[1].kind = "Cast"
     /\ node.args[1].name = "INTERVAL FOLLOWING"
     /\ node.args[1].args[1].kind \in {"Literal.string", "Literal.number"}
     /\ Len(split(node.args[1].args[1].name)) = 2
    THEN LET parts == split(node.args[1].args[1].name)
         IN [node EXCEPT !.args =
               <<Interval(Literal_number(parts[1]), upper(parts[2]))>>]
    ELSE node

\* What transformer returns: the node, and whether it is a new node (then
\* transform does not visit its children in this pass) or the node it was
\* given, possibly changed in place.
Same(node) == [node |-> node, replaced |-> FALSE]

New(node) == [node |-> node, replaced |-> TRUE]

\* node.set("this", expression)
set_this(node, expression) == [node EXCEPT !.args[1] = expression]

\* the right operand of IS is the column EMPTY
IsEmptyCheck(is_node) ==
  /\ right(is_node).kind = "Column"
  /\ upper(right(is_node).args[1].name) = "EMPTY"

\* The comparison branch of transformer (lines 432-475).
TransformComparison(node) ==
  IF ~_is_numeric_value(right(node)) THEN Same(node)
  ELSE
    LET abs_sub == _is_abs_with_subtraction(left(node))
        abs_dates == _extract_date_operands_from_sub(abs_sub)
        epoch_sub == _is_epoch_days_pattern(left(node))
        epoch_dates == _extract_date_operands_from_sub(epoch_sub)
        paren_dates == _extract_date_operands_from_sub(left(node).args[1])
        sub_dates == _extract_date_operands_from_sub(left(node))
        Found(dates) == dates[1] # NoNode /\ dates[2] # NoNode
    IN IF abs_sub # NoNode /\ Found(abs_dates)
         THEN Same(set_this(node,
                Abs(_create_datediff(abs_dates[1], abs_dates[2]))))
       ELSE IF epoch_sub # NoNode /\ Found(epoch_dates)
         THEN Same(set_this(node,
                _create_datediff(epoch_dates[1], epoch_dates[2])))
       ELSE IF /\ left(node).kind = "Paren"
               /\ left(node).args[1].kind = "Sub"
               /\ Found(paren_dates)
         THEN Same(set_this(node,
                _create_datediff(paren_dates[1], paren_dates[2])))
       ELSE IF left(node).kind = "Sub" /\ Found(sub_dates)
         THEN Same(set_this(node,
                _create_datediff(sub_dates[1], sub_dates[2])))
       ELSE Same(node)

\* transformer of _transform_date_operations (lines 361-477)
transformer(n) ==
  LET node == _transform_window_spec(n)
  IN IF node.kind = "Add" /\ right(node).kind = "Literal.number"
       THEN New(Anonymous("DATE_ADD", <<left(node), right(node)>>))
     ELSE IF _is_daterange_call(node)
       THEN New(_create_struct_for_range(node.args[1], node.args[2]))
     ELSE IF _is_range_overlap_operator(node)
       THEN New(_create_range_overlap_condition(left(node), right(node)))
     ELSE IF _is_range_intersection_operator(node)
       THEN New(_create_range_intersection(left(node), right(node)))
     ELSE IF /\ node.kind = "Not"
             /\ node.args[1].kind = "Is"
             /\ IsEmptyCheck(node.args[1])
       THEN LET range_expr == _unwrap_paren(left(node.args[1]))
            IN New(LTE(Dot(range_expr, Identifier("start")),
                       Dot(range_expr, Identifier("end"))))
     ELSE IF node.kind = "Is" /\ IsEmptyCheck(node)
       THEN LET range_expr == _unwrap_paren(left(node))
            IN New(GT(Dot(range_expr, Identifier("start")),
                      Dot(range_expr, Identifier("end"))))
     ELSE IF node.kind \in Comparisons THEN TransformComparison(node)
     ELSE Same(node)

\* Expression.transform(fun) of sqlglot, for fun = transformer: the nodes
\* are visited from the root down; the children of a node that fun
\* replaced by a new node are not visited.
RECURSIVE transform(_)
transform(node) ==
  LET r == transformer(node)
  IN IF r.replaced THEN r.node
     ELSE [r.node EXCEPT
             !.args = [k \in 1..Len(r.node.args) |-> transform(r.node.args[k])]]

\* max_iterations = 10
max_iterations == 10

\* A variant that goes on to the last iteration whatever the texts are.
NeverBreak(old, new) == FALSE

\* if old_sql == new_sql: break
Break(old, new) == old = new

\* A variant that looks at the target dialect alone.
TargetIsDatabricks(source, target) == target = "databricks"

\* if source_dialect == "postgres" and target_dialect == "databricks"
CustomRulesApply(source, target) ==
  source = "postgres" /\ target = "databricks"

\* No transpile_query call exists.
NoText == [dialect |-> "none", text |-> <<>>]

NoTranspiler ==
  /\ statement = NoNode
  /\ source_dialect = "none"
  /\ target_dialect = "none"
  /\ tree = NoNode
  /\ tpc = "none"
  /\ passes = 0
  /\ old_sql = <<>>
  /\ new_sql = <<>>
  /\ transpiled = NoText

(***************************************************************************)
(* The Select_Query tool (read_query of src/src/omcp/main.py and of        *)
(* src/src/omcp/main_robust.py).  A text is a sequence of pieces: the      *)
(* literal parts of a format string and the characters computed from the   *)
(* statement.                                                              *)
(***************************************************************************)
NonEmpty(piece) == piece # ""

\* QueryError.__str__ of an exception built without details: its message
str(e) ==
  SelectSeq(<<e.message[1]>>, NonEmpty) \o e.message[2]
    \o SelectSeq(<<e.message[3]>>, NonEmpty)

TextContent(text) == [type |-> "text", text |-> text]

CallToolResult(isError, content) ==
  [returned |-> TRUE, isError |-> isError, content |-> content]

NoResponse == [returned |-> FALSE, isError |-> FALSE, content |-> <<>>]

\* A variant that reports the first exception of the group alone.
FirstException(group) == <<group.value[1]>>

\* e.exceptions
exceptions(group) == group.value

\* str(e) for the exception a read_query call of the database ended with;
\* the text the backend gave is one opaque piece
StrOfFailure(r) ==
  IF r.outcome = "QueryError"
    THEN <<"Failed to execute query: ", "str(retry_error)">>
    ELSE <<"str(e)">>

\* The handler around db.read_query(query): r is how that call ended.
Select_Query(r) ==
  IF r.outcome = "return"
    THEN CallToolResult(FALSE, <<TextContent(<<"result">>)>>)
  ELSE IF r.outcome = "ExceptionGroup"
    THEN LET es == exceptions(r)
             errors == join(<<"\n\n">>, [i \in 1..Len(es) |-> str(es[i])])
         IN CallToolResult(TRUE,
              <<TextContent(
                  <<"Query validation failed with one or more errors:\n ">>
                    \o errors)>>)
  ELSE CallToolResult(TRUE,
         <<TextContent(<<"Failed to execute query: ">> \o StrOfFailure(r))>>)

\* The validator on its own: no database object exists.
NoUse ==
  [health |-> 0, disconnect |-> 0, connect |-> 0, test |-> 0, execute |-> 0,
   limits |-> <<>>, again |-> <<>>, sleeps |-> <<>>]

NoResult == [outcome |-> "none", value |-> <<>>]

maxsize == 128

\* what the backend answers to q at different times
CSVs == {<<"person_id\n1\n">>, <<"person_id\n1\n2\n">>}

\* No cached call has been made.
NoCache ==
  lru = [size |-> 0, rank |-> 0, csv |-> <<>>, called |-> "none",
         validated |-> FALSE, asked |-> FALSE, memo |-> <<>>]

\* No tool call has reached the wrapper.
NoToolCall ==
  [pc |-> "idle", tool |-> "none", langfuse |-> FALSE,
   context_token |-> "None", span |-> <<>>, invoked |-> <<>>,
   ex |-> "none", logged |-> <<>>, outcome |-> "none", response |-> "none"]

\* No request has reached a route.
NoRequest ==
  [pc |-> "idle", path |-> "none", generated |-> <<>>, sql_query |-> <<>>,
   validation_rules |-> [none |-> TRUE], validation_result |-> [none |-> TRUE],
   refinement |-> [none |-> TRUE], executed |-> <<>>, status_code |-> 0]

NoApplication ==
  /\ wrapper = NoToolCall
  /\ route = NoRequest

Threads == {"t1", "t2"}

Calls == {"read_query", "get_information_schema"}

\* a thread before its first call
NoCall ==
  [pc |-> "idle", call |-> "none", retrying |-> FALSE, attempt |-> 0,
   calls |-> 0, disturbed |-> FALSE, on |-> "nothing"]

\* No thread exists.
NoThreads ==
  /\ _conn_lock = "free"
  /\ threads = [t \in Threads |-> NoCall]

NoDatabase ==
  /\ impl = "none"
  /\ _conn = "None"
  /\ conn = "None"
  /\ _connect_retry_delay = 1
  /\ cache = {}
  /\ pc = "idle"
  /\ attempt = 0
  /\ retrying = FALSE
  /\ used = NoUse
  /\ result = NoResult
  /\ response = NoResponse

(***************************************************************************)
(* Spec: a validator built from any of the policies is given any of the    *)
(* statements, and validates it.                                           *)
(***************************************************************************)
Init ==
  /\ NoDatabase
  /\ NoTranspiler
  /\ NoThreads
  /\ NoCache
  /\ NoApplication
  /\ self \in Validators
  /\ sql \in Queries
  /\ fault = 0
  /\ ret = NoReturn
  /\ log = <<>>

\* The call validator.validate_sql(sql).  The method assigns no field of self.
ValidateCall ==
  /\ log = <<>>
  /\ ret' = validate_sql(self, sql, fault)
  /\ log' = <<[sql |-> sql, value |-> ret'.value]>>
  /\ UNCHANGED <<self, sql, fault, dbvars, trvars, thvars, lruvars, appvars>>

Next == ValidateCall

Spec == Init /\ [][Next]_vars

(***************************************************************************)
(* SpecFault: as Spec, and in addition one of the four checks may raise    *)
(* while a statement of the tests is validated.                            *)
(***************************************************************************)
InitFault ==
  /\ NoDatabase
  /\ NoTranspiler
  /\ NoThreads
  /\ NoCache
  /\ NoApplication
  /\ self \in Validators
  /\ \/ sql \in Queries /\ fault = 0
     \/ sql \in TestQueries /\ fault \in 1..Len(CheckNames)
  /\ ret = NoReturn
  /\ log = <<>>

SpecFault == InitFault /\ [][Next]_vars

(***************************************************************************)
(* SpecRepeat: one validator is called again and again, with the           *)
(* statements of the tests in any order.                                   *)
(***************************************************************************)
InitRepeat ==
  /\ NoDatabase
  /\ NoTranspiler
  /\ NoThreads
  /\ NoCache
  /\ NoApplication
  /\ self \in Validators
  /\ sql = NoQuery
  /\ fault = 0
  /\ ret = NoReturn
  /\ log = <<>>

ValidateAgain(q) ==
  /\ Len(log) < MaxCalls
  /\ sql' = q
  /\ ret' = validate_sql(self, q, fault)
  /\ log' = Append(log, [sql |-> q, value |-> ret'.value])
  /\ UNCHANGED <<self, fault, dbvars, trvars, thvars, lruvars, appvars>>

NextRepeat == \E q \in TestQueries : ValidateAgain(q)

SpecRepeat == InitRepeat /\ [][NextRepeat]_vars

(***************************************************************************)
(* OmopDatabase (src/src/omcp/db.py) and RobustOmopDatabase                *)
(* (src/src/omcp/db_robust.py).  The backend is the environment: whether   *)
(* a health check, a connection attempt or an execution succeeds is its    *)
(* choice, made anew at every step.                                        *)
(***************************************************************************)
max_retries == 3

INITIAL_RETRY_DELAY == 1

MAX_RETRY_DELAY == 10

\* A variant without the cap.
Uncapped(a, b) == a

Min(a, b) == IF a <= b THEN a ELSE b

\* A variant with one more pass of the loop.
OneMoreAttempt(a) == a < max_retries

\* if attempt < max_retries - 1: sleep and go on; else: raise
NotLastAttempt(a) == a < max_retries - 1

Use(what) == [used EXCEPT ![what] = @ + 1]

\* self.row_limit = 1000
row_limit == 1000

\* A variant whose second try executes the query without the limit.
ExecuteUnlimitedAgain(u, again) ==
  [u EXCEPT !.execute = @ + 1,
            !.limits = Append(@, IF again THEN 0 ELSE row_limit),
            !.again = Append(@, again)]

\* A variant whose second try executes the query a second time when done.
ExecuteTwiceAgain(u, again) ==
  [u EXCEPT !.execute = IF again THEN @ + 2 ELSE @ + 1,
            !.limits = Append(@, row_limit),
            !.again = Append(@, again)]

\* self._conn.sql(query).limit(self.row_limit).execute(), in the first try
\* and (again) in the second: one more execution, with the limit it has
Execute(u, again) ==
  [u EXCEPT !.execute = @ + 1, !.limits = Append(@, row_limit),
            !.again = Append(@, again)]

\* A variant that lets a single violation through.
RejectsSeveral(errors) == Len(errors) > 1

\* if errors: raise ExceptionGroup("Query validation failed", errors)
Rejects(errors) == errors # <<>>

\* The object after __init__: the first _ensure_connected has succeeded, the
\* validator is built with the flag and without exclusion lists.
InitDb ==
  /\ NoTranspiler
  /\ NoThreads
  /\ NoCache
  /\ NoApplication
  /\ impl \in {"db", "db_robust"}
  /\ \E a \in BOOLEAN : self = SQLValidator(a, NoneArg, NoneArg)
  /\ sql = NoQuery
  /\ fault = 0
  /\ ret = NoReturn
  /\ log = <<>>
  /\ _conn = "open"
  /\ conn = IF impl = "db" THEN "open" ELSE "None"
  /\ _connect_retry_delay = INITIAL_RETRY_DELAY
  /\ cache = {}
  /\ pc = "idle"
  /\ attempt = 0
  /\ retrying = FALSE
  /\ used = NoUse
  /\ result = NoResult
  /\ response = NoResponse

\* read_query(q) of db.py finds q in its lru_cache.
ReadQueryCached(q) ==
  /\ UNCHANGED <<trvars, thvars, lruvars, appvars>>
  /\ pc = "idle"
  /\ impl = "db" /\ q \in cache
  /\ sql' = q
  /\ used' = NoUse
  /\ result' = [outcome |-> "return", value |-> <<>>]
  /\ response' = Select_Query(result')
  /\ UNCHANGED <<self, fault, ret, log, impl, _conn, conn,
                 _connect_retry_delay, cache, pc, attempt, retrying>>

\* read_query(q): the validator returns errors, the call raises them.
ReadQueryRejected(q) ==
  /\ UNCHANGED <<trvars, thvars, lruvars, appvars>>
  /\ pc = "idle"
  /\ ~(impl = "db" /\ q \in cache)
  /\ LET errors == validate_sql(self, q, fault)
     IN /\ Rejects(errors.value)
        /\ ret' = errors
        /\ result' = [outcome |-> "ExceptionGroup", value |-> errors.value]
  /\ sql' = q
  /\ used' = NoUse
  /\ response' = Select_Query(result')
  /\ UNCHANGED <<self, fault, log, impl, _conn, conn, _connect_retry_delay,
                 cache, pc, attempt, retrying>>

\* read_query(q): the validator returns no error, the call goes on.
ReadQueryValidated(q) ==
  /\ UNCHANGED <<trvars, thvars, lruvars, appvars>>
  /\ pc = "idle"
  /\ ~(impl = "db" /\ q \in cache)
  /\ LET errors == validate_sql(self, q, fault)
     IN /\ ~Rejects(errors.value)
        /\ ret' = errors
  /\ sql' = q
  /\ used' = NoUse
  /\ result' = NoResult
  /\ retrying' = FALSE
  /\ pc' = "ensure_connected"
  /\ response' = NoResponse
  /\ UNCHANGED <<self, fault, log, impl, _conn, conn, _connect_retry_delay,
                 cache, attempt>>

\* _ensure_connected with no connection: _reconnect, nothing to disconnect.
EnsureWithoutConnection ==
  /\ UNCHANGED <<trvars, thvars, lruvars, appvars>>
  /\ pc = "ensure_connected"
  /\ _conn = "None"
  /\ attempt' = 0
  /\ pc' = "reconnect"
  /\ UNCHANGED response
  /\ UNCHANGED <<valvars, impl, _conn, conn, _connect_retry_delay, cache,
                 retrying, used, result>>

\* _ensure_connected: _is_connection_alive runs SELECT 1, which succeeds.
HealthCheckPasses ==
  /\ UNCHANGED <<trvars, thvars, lruvars, appvars>>
  /\ pc = "ensure_connected"
  /\ _conn # "None"
  /\ used' = Use("health")
  /\ conn' = IF impl = "db" THEN _conn ELSE conn
  /\ pc' = "execute"
  /\ UNCHANGED response
  /\ UNCHANGED <<valvars, impl, _conn, _connect_retry_delay, cache, attempt,
                 retrying, result>>

\* _ensure_connected: SELECT 1 fails; _reconnect disconnects and starts over.
HealthCheckFails ==
  /\ UNCHANGED <<trvars, thvars, lruvars, appvars>>
  /\ pc = "ensure_connected"
  /\ _conn # "None"
  /\ used' = [used EXCEPT !["health"] = @ + 1, !["disconnect"] = @ + 1]
  /\ _conn' = "None"
  /\ attempt' = 0
  /\ pc' = "reconnect"
  /\ UNCHANGED response
  /\ UNCHANGED <<valvars, impl, conn, _connect_retry_delay, cache, retrying,
                 result>>

\* One pass of the loop of _reconnect that connects and passes its test.
ConnectSucceeds ==
  /\ UNCHANGED <<trvars, thvars, lruvars, appvars>>
  /\ pc = "reconnect"
  /\ used' = [used EXCEPT !["connect"] = @ + 1, !["test"] = @ + 1]
  /\ _conn' = "open"
  /\ _connect_retry_delay' = INITIAL_RETRY_DELAY
  /\ conn' = IF impl = "db" THEN "open" ELSE conn
  /\ pc' = "execute"
  /\ UNCHANGED response
  /\ UNCHANGED <<valvars, impl, cache, attempt, retrying, result>>

\* One pass of the loop of _reconnect that fails: in ibis.connect, or
\* (created) in the test of the connection it has just assigned to _conn.
ConnectFails(created) ==
  /\ UNCHANGED <<trvars, thvars, lruvars, appvars>>
  /\ pc = "reconnect"
  /\ used' = [used EXCEPT !["connect"] = @ + 1,
                          !["test"] = IF created THEN @ + 1 ELSE @,
                          !["sleeps"] = IF NotLastAttempt(attempt)
                                          THEN Append(@, _connect_retry_delay)
                                          ELSE @]
  /\ IF NotLastAttempt(attempt)
       THEN \* sleep, double the delay, next pass
            /\ _connect_retry_delay' =
                 Min(_connect_retry_delay * 2, MAX_RETRY_DELAY)
            /\ attempt' = attempt + 1
            /\ _conn' = IF created THEN "open" ELSE _conn
            /\ UNCHANGED <<conn, retrying, pc, result>>
       ELSE \* raise ConnectionError
            /\ UNCHANGED <<_connect_retry_delay, attempt>>
            /\ IF retrying
                 THEN \* except Exception as retry_error: raise QueryError
                      /\ result' = [outcome |-> "QueryError", value |-> <<>>]
                      /\ pc' = "idle"
                      /\ _conn' = IF created THEN "open" ELSE _conn
                      /\ UNCHANGED <<conn, retrying>>
                 ELSE IF impl = "db"
                   THEN \* inside the try: clear the connection, try again
                        /\ _conn' = "None"
                        /\ conn' = "None"
                        /\ retrying' = TRUE
                        /\ pc' = "ensure_connected"
                        /\ UNCHANGED result
                   ELSE \* db_robust: outside the try, the error propagates
                        /\ result' = [outcome |-> "ConnectionError",
                                      value |-> <<>>]
                        /\ pc' = "idle"
                        /\ _conn' = IF created THEN "open" ELSE _conn
                        /\ UNCHANGED <<conn, retrying>>
  /\ response' = IF pc' = "idle" THEN Select_Query(result') ELSE response
  /\ UNCHANGED <<valvars, impl, cache>>

\* self._conn.tree_sql(query).limit(self.row_limit).execute() and to_csv succeed.
ExecuteSucceeds ==
  /\ UNCHANGED <<trvars, thvars, lruvars, appvars>>
  /\ pc = "execute"
  /\ used' = Execute(used, retrying)
  /\ result' = [outcome |-> "return", value |-> <<>>]
  /\ cache' = IF impl = "db" THEN cache \cup {sql} ELSE cache
  /\ pc' = "idle"
  /\ response' = IF pc' = "idle" THEN Select_Query(result') ELSE response
  /\ UNCHANGED <<valvars, impl, _conn, conn, _connect_retry_delay, attempt,
                 retrying>>

\* The execution fails: the first time the connection is cleared and the
\* call tries once more, the second time it raises QueryError.
ExecuteFails ==
  /\ UNCHANGED <<trvars, thvars, lruvars, appvars>>
  /\ pc = "execute"
  /\ used' = Execute(used, retrying)
  /\ IF retrying
       THEN /\ result' = [outcome |-> "QueryError", value |-> <<>>]
            /\ pc' = "idle"
            /\ UNCHANGED <<_conn, conn, retrying>>
       ELSE /\ _conn' = "None"
            /\ conn' = IF impl = "db" THEN "None" ELSE conn
            /\ retrying' = TRUE
            /\ pc' = "ensure_connected"
            /\ UNCHANGED result
  /\ response' = IF pc' = "idle" THEN Select_Query(result') ELSE response
  /\ UNCHANGED <<valvars, impl, _connect_retry_delay, cache, attempt>>

\* The queries given to read_query.
DbQueries ==
  {Q_valid, Q_join, Q_source_value, Q_insert, Q_users, Q_users_source_value,
   Q_unparsable}

NextDb ==
  \/ \E q \in DbQueries : ReadQueryCached(q)
  \/ \E q \in DbQueries : ReadQueryRejected(q)
  \/ \E q \in DbQueries : ReadQueryValidated(q)
  \/ EnsureWithoutConnection
  \/ HealthCheckPasses
  \/ HealthCheckFails
  \/ ConnectSucceeds
  \/ \E created \in BOOLEAN : ConnectFails(created)
  \/ ExecuteSucceeds
  \/ ExecuteFails

SpecDb == InitDb /\ [][NextDb]_vars

(***************************************************************************)
(* Concurrent calls of read_query and get_information_schema on one        *)
(* OmopDatabase or RobustOmopDatabase, each in a thread of its own, none   *)
(* of them answered from an lru_cache.  A step is what a thread does       *)
(* between two points where another thread can run and make a difference:  *)
(* taking the lock, reading self._conn, writing self._conn.  The queries   *)
(* have passed validation.                                                 *)
(***************************************************************************)
\* The object after __init__, shared by the threads.
InitThreads ==
  /\ NoTranspiler
  /\ impl \in {"db", "db_robust"}
  /\ self = SQLValidator(FALSE, NoneArg, NoneArg)
  /\ sql = NoQuery
  /\ fault = 0
  /\ ret = NoReturn
  /\ log = <<>>
  /\ _conn = "open"
  /\ conn = IF impl = "db" THEN "open" ELSE "None"
  /\ _connect_retry_delay = INITIAL_RETRY_DELAY
  /\ cache = {}
  /\ pc = "idle"
  /\ attempt = 0
  /\ retrying = FALSE
  /\ used = NoUse
  /\ result = NoResult
  /\ response = NoResponse
  /\ NoThreads
  /\ NoCache
  /\ NoApplication

\* what the threads leave alone
ThreadsLeaveAlone ==
  UNCHANGED <<valvars, trvars, lruvars, appvars, impl, cache, pc, attempt, retrying,
              used, result, response>>

\* the call of thread t is over: it returned or raised
Returns(t) == [threads[t] EXCEPT !.pc = "idle", !.calls = @ + 1]

\* Thread t has assigned self._conn (written): every other thread that has
\* left _ensure_connected and not yet executed now has another connection,
\* or none, than the one it ensured.
Assigned(t, written, mine) ==
  [u \in Threads |->
     IF u = t THEN mine
     ELSE IF written /\ threads[u].pc = "execute"
       THEN [threads[u] EXCEPT !.disturbed = TRUE]
     ELSE threads[u]]

\* Thread t enters read_query (validation done) or get_information_schema.
ThreadCalls(t, call) ==
  /\ threads[t].pc = "idle"
  /\ threads[t].calls < MaxThreadCalls
  /\ threads' = [threads EXCEPT ![t] =
       [@ EXCEPT !.pc = "ensure_connected", !.call = call,
                 !.retrying = FALSE, !.on = "nothing"]]
  /\ UNCHANGED <<_conn, conn, _connect_retry_delay, _conn_lock>>
  /\ ThreadsLeaveAlone

\* _ensure_connected: with self._conn_lock, the test of self._conn and the
\* health check (alive); it returns, or enters _reconnect, which
\* disconnects and clears the connection it found.
ThreadEnsuresConnected(t, alive) ==
  /\ threads[t].pc = "ensure_connected"
  /\ _conn_lock = "free"
  /\ _conn = "None" => alive
  /\ IF _conn # "None" /\ alive
       THEN /\ conn' = IF impl = "db" THEN _conn ELSE conn
            /\ threads' = [threads EXCEPT ![t] =
                 [@ EXCEPT !.pc = "execute", !.disturbed = FALSE]]
            /\ UNCHANGED <<_conn, _conn_lock>>
       ELSE /\ _conn' = "None"
            /\ _conn_lock' = t
            /\ threads' = Assigned(t, _conn # "None",
                 [threads[t] EXCEPT !.pc = "reconnect", !.attempt = 0])
            /\ UNCHANGED conn
  /\ UNCHANGED _connect_retry_delay
  /\ ThreadsLeaveAlone

\* _reconnect, the lock held: an attempt connects and passes its test;
\* _ensure_connected returns and releases the lock.
ThreadConnects(t) ==
  /\ threads[t].pc = "reconnect"
  /\ _conn_lock = t
  /\ _conn' = "open"
  /\ _connect_retry_delay' = INITIAL_RETRY_DELAY
  /\ conn' = IF impl = "db" THEN "open" ELSE conn
  /\ _conn_lock' = "free"
  /\ threads' = Assigned(t, TRUE,
       [threads[t] EXCEPT !.pc = "execute", !.disturbed = FALSE])
  /\ ThreadsLeaveAlone

\* _reconnect, the lock held: an attempt fails, in ibis.connect or (created)
\* in the test of the connection it has assigned to self._conn.  After the
\* last attempt ConnectionError leaves _ensure_connected and releases the
\* lock.
ThreadConnectFails(t, created) ==
  /\ threads[t].pc = "reconnect"
  /\ _conn_lock = t
  /\ _conn' = IF created THEN "open" ELSE _conn
  /\ IF NotLastAttempt(threads[t].attempt)
       THEN /\ _connect_retry_delay' =
                 Min(_connect_retry_delay * 2, MAX_RETRY_DELAY)
            /\ threads' = Assigned(t, created,
                 [threads[t] EXCEPT !.attempt = @ + 1])
            /\ UNCHANGED _conn_lock
       ELSE /\ _conn_lock' = "free"
            /\ UNCHANGED _connect_retry_delay
            /\ threads' = Assigned(t, created,
                 IF /\ threads[t].call = "read_query"
                    /\ ~threads[t].retrying
                    /\ impl = "db"
                   THEN \* db.py: inside the try of read_query
                        [threads[t] EXCEPT !.pc = "except"]
                   ELSE Returns(t))
  /\ UNCHANGED conn
  /\ ThreadsLeaveAlone

\* with self._conn_lock: self._conn.sql(query)...execute().  self._conn
\* is read once, with the lock held; on None the call raises
\* AttributeError, which the handlers treat as any other failure.
ThreadExecutes(t, ok) ==
  /\ threads[t].pc = "execute"
  /\ _conn_lock = "free"
  /\ _conn = "None" => ~ok
  /\ threads' = [threads EXCEPT ![t] =
       LET seen == [threads[t] EXCEPT !.on = _conn]
       IN IF ok \/ (seen.call = "read_query" /\ seen.retrying)
            THEN [seen EXCEPT !.pc = "idle", !.calls = @ + 1]
            ELSE [seen EXCEPT !.pc = "except"]]
  /\ UNCHANGED <<_conn, conn, _connect_retry_delay, _conn_lock>>
  /\ ThreadsLeaveAlone

\* except Exception: self._conn = None, outside the with block; read_query
\* then tries once more, get_information_schema raises QueryError.
ThreadClearsConnection(t) ==
  /\ threads[t].pc = "except"
  /\ _conn' = "None"
  /\ conn' = IF impl = "db" THEN "None" ELSE conn
  /\ threads' = Assigned(t, TRUE,
       IF threads[t].call = "read_query"
         THEN [threads[t] EXCEPT !.pc = "ensure_connected", !.retrying = TRUE]
         ELSE Returns(t))
  /\ UNCHANGED <<_connect_retry_delay, _conn_lock>>
  /\ ThreadsLeaveAlone

NextThreads ==
  \/ \E t \in Threads, call \in Calls : ThreadCalls(t, call)
  \/ \E t \in Threads, alive \in BOOLEAN : ThreadEnsuresConnected(t, alive)
  \/ \E t \in Threads : ThreadConnects(t)
  \/ \E t \in Threads, created \in BOOLEAN : ThreadConnectFails(t, created)
  \/ \E t \in Threads, ok \in BOOLEAN : ThreadExecutes(t, ok)
  \/ \E t \in Threads : ThreadClearsConnection(t)

SpecThreads == InitThreads /\ [][NextThreads]_vars

(***************************************************************************)
(* @lru_cache(maxsize=128) around read_query of db.py (line 282), seen     *)
(* from one valid query q: the cache is the number of its entries and the  *)
(* place of q among them, 1 the most recently used, 0 not in the cache.    *)
(* A call is one step: the look-up, and on a miss the whole of read_query  *)
(* with the outcome the validator and the backend give it.  The record     *)
(* also keeps what the latest call did (called, validated, asked) and the  *)
(* CSV of the first successful call of q (memo).                           *)
(***************************************************************************)
\* A variant that stores the call whatever its outcome.
CachesEveryOutcome(outcome) == TRUE

\* functools.lru_cache stores the value the function returns; a call that
\* raises leaves the cache as it was
CachesResult(outcome) == outcome = "return"

\* The cache after a hit: the entry found becomes the most recently used.
\* which: q, another entry used more recently than q, or one used less.
lru_hit(c, which) ==
  [c EXCEPT !.rank = IF which = "q" THEN 1
                     ELSE IF which = "older" THEN @ + 1
                     ELSE @]

\* The cache after a miss whose call ended with outcome: the new entry is
\* the most recently used, and when the cache is full the least recently
\* used entry is dropped.
lru_miss(c, which, outcome, csv) ==
  IF ~CachesResult(outcome) THEN c
  ELSE LET full == c.size = maxsize
           evicted == which # "q" /\ full /\ c.rank = maxsize
       IN [c EXCEPT
             !.size = IF full THEN @ ELSE @ + 1,
             !.rank = IF which = "q" THEN 1
                      ELSE IF evicted \/ @ = 0 THEN 0
                      ELSE @ + 1,
             !.csv = IF which = "q" THEN csv
                     ELSE IF evicted THEN <<>>
                     ELSE @]

\* The OmopDatabase of db.py after __init__, its cache empty.
InitCache ==
  /\ NoTranspiler
  /\ NoThreads
  /\ impl = "db"
  /\ self = SQLValidator(FALSE, NoneArg, NoneArg)
  /\ sql = NoQuery
  /\ fault = 0
  /\ ret = NoReturn
  /\ log = <<>>
  /\ _conn = "open"
  /\ conn = "open"
  /\ _connect_retry_delay = INITIAL_RETRY_DELAY
  /\ cache = {}
  /\ pc = "idle"
  /\ attempt = 0
  /\ retrying = FALSE
  /\ used = NoUse
  /\ result = NoResult
  /\ response = NoResponse
  /\ NoCache
  /\ NoApplication

\* what the calls through the cache leave alone
CacheLeavesAlone ==
  UNCHANGED <<valvars, trvars, thvars, appvars, impl, _connect_retry_delay, cache, pc,
              attempt, retrying, used, response>>

\* read_query(query) finds query in the cache: the stored CSV is returned
\* and read_query does not run.
CacheHit(which) ==
  /\ which = "q" => lru.rank # 0
  /\ which = "newer" => (lru.rank = 0 /\ lru.size >= 1) \/ lru.rank >= 2
  /\ which = "older" => lru.rank # 0 /\ lru.rank < lru.size
  /\ lru' = [lru_hit(lru, which) EXCEPT
               !.called = IF which = "q" THEN "q" ELSE "other",
               !.validated = FALSE, !.asked = FALSE]
  /\ result' = [outcome |-> "return",
                value |-> IF which = "q" THEN lru.csv ELSE <<>>]
  /\ UNCHANGED <<_conn, conn>>
  /\ CacheLeavesAlone

\* read_query(query) is not in the cache and runs to its return: the query
\* is validated and executed (after a reconnection if need be) and its CSV
\* is stored.
CacheMissReturns(which, csv) ==
  /\ which = "q" => lru.rank = 0
  /\ lru' = [lru_miss(lru, which, "return", csv) EXCEPT
               !.called = which, !.validated = TRUE, !.asked = TRUE,
               !.memo = IF which = "q" /\ @ = <<>> THEN csv ELSE @]
  /\ result' = [outcome |-> "return",
                value |-> IF which = "q" THEN csv ELSE <<>>]
  /\ _conn' = "open"
  /\ conn' = "open"
  /\ CacheLeavesAlone

\* read_query(query) is not in the cache and raises: the ExceptionGroup of
\* the validator (not for q, which is valid), or QueryError after the
\* second failure, which leaves the connection cleared or (created) the
\* one whose test failed.
CacheMissRaises(which, outcome, created) ==
  /\ which = "q" => lru.rank = 0 /\ outcome = "QueryError"
  /\ outcome = "ExceptionGroup" => ~created
  /\ lru' = [lru_miss(lru, which, outcome, <<>>) EXCEPT
               !.called = which, !.validated = TRUE,
               !.asked = (outcome = "QueryError")]
  /\ result' = [outcome |-> outcome, value |-> <<>>]
  /\ _conn' = IF outcome = "ExceptionGroup" THEN _conn
              ELSE IF created THEN "open" ELSE "None"
  /\ conn' = IF outcome = "ExceptionGroup" THEN conn ELSE "None"
  /\ CacheLeavesAlone

NextCache ==
  \/ \E which \in {"q", "newer", "older"} : CacheHit(which)
  \/ \E which \in {"q", "other"}, csv \in CSVs : CacheMissReturns(which, csv)
  \/ \E which \in {"q", "other"}, outcome \in {"ExceptionGroup", "QueryError"},
        created \in BOOLEAN : CacheMissRaises(which, outcome, created)

SpecCache == InitCache /\ [][NextCache]_vars

(***************************************************************************)
(* transpile_query (src/src/omcp/transpiler.py, lines 491-515) and the     *)
(* loop of _transform_date_operations (lines 479-488), one transform pass  *)
(* at a time.  The statements are the idioms the rules are written for, in *)
(* the places of a SELECT statement where an expression can stand.         *)
(***************************************************************************)
ColA == Column2("a", "condition_start_date")

ColB == Column2("b", "index_date")

ColC == Column2("c", "days")

\* the left and the right operand of the subtractions
LeftOperands ==
  {ColA, Cast(ColA, "TIMESTAMP"), Extract("YEAR", ColA),
   Cast(Extract("year", ColA), "TIMESTAMP")}

RightOperands ==
  {ColB, Cast(ColB, "TIMESTAMP"), Cast(ColB, "DATE"), Extract("YEAR", ColB)}

Subtractions == {Sub(a, b) : a \in LeftOperands, b \in RightOperands}

\* CAST(EXTRACT(EPOCH FROM expression) / 86400 AS BIGINT)
EpochDays(expression) ==
  Cast(Div(Extract("EPOCH", expression), Literal_number("86400")), "BIGINT")

\* the shapes a subtraction is written in on the left of a comparison
LeftShapes(s) ==
  {s, Paren(s), Abs(s), Abs(Paren(s)), EpochDays(s), EpochDays(Paren(s))}

\* the right operands of the comparisons: the last two are not numeric values
Thresholds ==
  {Literal_number("30"), Placeholder("days"), Parameter("1"),
   Cast(Literal_number("30"), "INT"), Cast(Placeholder("days"), "INT"),
   ColC, Literal_string("30")}

ComparisonNodes ==
  {Binary(cmp, l, n) :
     cmp \in Comparisons,
     l \in UNION {LeftShapes(s) : s \in Subtractions},
     n \in Thresholds}

\* SELECT expression FROM t
SelectOf(expression) == SelectStatement(<<expression>>, <<From(Table("t"))>>)

\* SELECT x FROM t WHERE condition
SelectWhere(condition) ==
  SelectStatement(<<Column("x")>>, <<From(Table("t")), Where(condition)>>)

\* SELECT x FROM t JOIN u ON condition
SelectJoin(condition) ==
  SelectStatement(<<Column("x")>>,
                  <<From(Table("t")), Join(Table("u"), condition)>>)

\* d + 1 + 1 + ... + 1, with n additions
RECURSIVE AddChain(_)
AddChain(n) ==
  IF n = 0 THEN Column("d") ELSE Add(AddChain(n - 1), Literal_number("1"))

DateRange(n) ==
  Anonymous("DATERANGE", <<Column2(n, "start_date"), Column2(n, "end_date")>>)

\* the operands of the range operators
Ranges(n) == {Column2(n, "dr"), Column(n), DateRange(n)}

\* r * r * ... * r with n multiplications, each left operand in
\* parentheses or not
RECURSIVE IntersectionChain(_, _, _)
IntersectionChain(r, n, parens) ==
  IF n = 0 THEN r
  ELSE Mul(IF parens THEN Paren(IntersectionChain(r, n - 1, parens))
           ELSE IntersectionChain(r, n - 1, parens),
           r)

\* a range intersection nested inside a range-overlap check
NestedIntersections ==
  {ArrayOverlaps(Paren(IntersectionChain(r, n, parens)), other) :
     r \in Ranges("d1"), n \in 1..MaxNest, parens \in BOOLEAN,
     other \in Ranges("d2")}
  \cup
  {ArrayOverlaps(other, Paren(IntersectionChain(r, n, parens))) :
     r \in Ranges("d1"), n \in 1..MaxNest, parens \in BOOLEAN,
     other \in Ranges("d2")}

RangeConditions ==
  NestedIntersections
  \cup {ArrayOverlaps(r, other) : r \in Ranges("d1"), other \in Ranges("d2")}
  \cup {Is(Paren(Mul(r, other)), Column("EMPTY")) :
          r \in Ranges("d1"), other \in Ranges("d2")}
  \cup {Not(Is(Paren(Mul(r, other)), Column("empty"))) :
          r \in Ranges("d1"), other \in Ranges("d2")}

\* multiplications that are arithmetic, and field accesses
Arithmetic ==
  {Mul(Column("quantity"), Literal_number("2")),
   Mul(Column3("d2", "dr", "start"), Column("n")),
   Mul(Column("r1"), Column("r2")),
   Mul(Paren(Mul(Column("r1"), Column("r2"))), Column2("d", "dr")),
   Mul(DateRange("d1"), DateRange("d2")),
   Mul(DateRange("d1"), Literal_number("2")),
   Mul(Anonymous("COALESCE", <<Column("n"), Literal_number("0")>>), Column("r2")),
   Mul(Column("r1"), Paren(Column2("p", "end"))),
   Mul(Literal_string("[2020-01-01,2021-01-01)"), Column("r2")),
   Add(Column("d"), Column("n")),
   Sub(ColA, ColB),
   Anonymous("COALESCE", <<Sub(ColA, ColB), Literal_number("0")>>),
   Anonymous("DATEDIFF", <<ColA, ColB>>)}

\* SUM(x) OVER (ORDER BY d kind BETWEEN CURRENT ROW AND end)
WindowOf(kind, end) ==
  Window(Anonymous("SUM", <<Column("x")>>), Column("d"), WindowSpec(kind, end))

Windows ==
  {WindowOf(kind, Cast(Literal_string(text), "INTERVAL FOLLOWING")) :
     kind \in {"RANGE", "ROWS"}, text \in {"30 days", "30"}}

\* sqlglot.parse_one raises on this text
Unparsed == Node("ParseError", "", <<>>)

TranspilerStatements ==
  {SelectWhere(c) : c \in ComparisonNodes \cup RangeConditions}
  \cup {SelectJoin(c) :
          c \in {LTE(Paren(Sub(ColA, ColB)), Literal_number("30")),
                 LTE(Sub(ColA, ColB), ColC),
                 Binary("GT", Sub(Extract("YEAR", ColA),
                                  Column2("p", "year_of_birth")),
                        Literal_number("65"))}}
  \cup {SelectOf(e) :
          e \in Arithmetic \cup Windows
                 \cup {LTE(Paren(Sub(ColA, ColB)), Literal_number("30"))}}
  \cup {SelectOf(AddChain(n)) : n \in 0..MaxAdds}
  \cup {Unparsed}

\* the statements given with the other pairs of dialects
SampleStatements ==
  {SelectWhere(c) : c \in RangeConditions}
  \cup {SelectOf(e) : e \in Arithmetic \cup Windows}
  \cup {SelectWhere(LTE(Paren(Sub(ColA, ColB)), Literal_number("30"))),
        SelectOf(AddChain(2)), Unparsed}

Dialects == {"postgres", "databricks", "duckdb"}

\* Everything but the transpiler.
NoValidation ==
  /\ NoDatabase
  /\ self = SQLValidator(FALSE, NoneArg, NoneArg)
  /\ sql = NoQuery
  /\ fault = 0
  /\ ret = NoReturn
  /\ log = <<>>

\* transpile_query(sql, source_dialect, target_dialect) is called.
InitTranspile ==
  /\ NoValidation
  /\ NoThreads
  /\ NoCache
  /\ NoApplication
  /\ source_dialect \in Dialects
  /\ target_dialect \in Dialects
  /\ IF source_dialect = "postgres" /\ target_dialect = "databricks"
       THEN statement \in TranspilerStatements
       ELSE statement \in SampleStatements
  /\ tree = NoNode
  /\ tpc = "parse"
  /\ passes = 0
  /\ old_sql = <<>>
  /\ new_sql = <<>>
  /\ transpiled = NoText

\* sqlglot.parse_one raises; transpile_query raises ValueError.
ParseFails ==
  /\ tpc = "parse"
  /\ statement = Unparsed
  /\ tpc' = "ValueError"
  /\ UNCHANGED <<valvars, dbvars, thvars, lruvars, appvars, statement, source_dialect, target_dialect,
                 tree, passes, old_sql, new_sql, transpiled>>

\* tree = sqlglot.parse_one(sql, read=source_dialect), and the test of the
\* pair of dialects.
Parse ==
  /\ tpc = "parse"
  /\ statement # Unparsed
  /\ tree' = statement
  /\ tpc' = IF CustomRulesApply(source_dialect, target_dialect)
              THEN "loop" ELSE "generate"
  /\ UNCHANGED <<valvars, dbvars, thvars, lruvars, appvars, statement, source_dialect, target_dialect,
                 passes, old_sql, new_sql, transpiled>>

\* One iteration of the loop: old_sql, transform, new_sql, and the break;
\* the loop also ends with its last iteration.
TransformPass ==
  /\ tpc = "loop"
  /\ passes < max_iterations
  /\ old_sql' = tree_sql(tree)
  /\ tree' = transform(tree)
  /\ new_sql' = tree_sql(tree')
  /\ passes' = passes + 1
  /\ tpc' = IF Break(old_sql', new_sql') \/ passes' = max_iterations
              THEN "generate" ELSE "loop"
  /\ UNCHANGED <<valvars, dbvars, thvars, lruvars, appvars, statement, source_dialect, target_dialect,
                 transpiled>>

\* transpiled = tree.tree_sql(dialect=target_dialect): the text of the tree as
\* sqlglot prints it for that dialect; return transpiled.
Generate ==
  /\ tpc = "generate"
  /\ transpiled' = [dialect |-> target_dialect, text |-> tree_sql(tree)]
  /\ tpc' = "done"
  /\ UNCHANGED <<valvars, dbvars, thvars, lruvars, appvars, statement, source_dialect, target_dialect,
                 tree, passes, old_sql, new_sql>>

NextTranspile == ParseFails \/ Parse \/ TransformPass \/ Generate

SpecTranspile == InitTranspile /\ [][NextTranspile]_vars

(***************************************************************************)
(* Vocabulary of the properties.                                           *)
(***************************************************************************)
Returned == log # <<>> /\ ret.outcome = "return"

Parsed == sql.parse = "ok"

IsSelect == Parsed /\ sql.root = "Select"

\* The positions of the returned list holding an error of a class whose
\* message starts with a text.
ErrorsOf(type, text) ==
  {i \in 1..Len(ret.value) :
     ret.value[i].type = type /\ ret.value[i].message[1] = text}

ErrorsOfClass(type) == {i \in 1..Len(ret.value) : ret.value[i].type = type}

NotOmopErrors == ErrorsOf("TableNotFoundError", "Tables not found in OMOP CDM: ")

ExcludedTableErrors ==
  ErrorsOf("UnauthorizedTableError", "Unauthorized tables in query: ")

ExcludedColumnErrors ==
  ErrorsOf("UnauthorizedColumnError", "Unauthorized columns in query: ")

SourceValueErrors == ErrorsOf("UnauthorizedColumnError", SourceValueText)

\* The names the statement references that each rule is about.
NonOmopTables == {t \in Range(sql.tables) : lower(t) \notin Range(OMOP_TABLES)}

ExcludedTables ==
  {t \in Range(sql.tables) : lower(t) \in Range(self.exclude_tables)}

ExcludedColumns ==
  {c \in Range(sql.columns) : lower(c) \in Range(self.exclude_columns)}

SourceValueColumns ==
  {c \in Range(sql.columns) :
     \/ endswith(lower(c), SUFFIX_source_value)
     \/ endswith(lower(c), SUFFIX_source_concept_id)}

\* An error's message names a table or column: its lower-cased name occurs
\* in the computed part of the message.
Names(e, name) == Contains(e.message[2], lower(name))

(***************************************************************************)
(* C1.  A statement that parses and whose root is not a SELECT yields      *)
(* exactly one error, a NotSelectQueryError, whatever tables and columns   *)
(* it names and whatever the policy excludes.                              *)
(***************************************************************************)
C1_NonSelectYieldsOnlyNotSelect ==
  (Returned /\ Parsed /\ sql.root # "Select") =>
    /\ Len(ret.value) = 1
    /\ ret.value[1].type = "NotSelectQueryError"

C1_Witness ==
  /\ Returned /\ Parsed /\ sql.root = "Insert"
  /\ ExcludedTables # {} /\ NonOmopTables # {}
  /\ ExcludedColumns # {} /\ SourceValueColumns # {}
  /\ ~self.allow_source_value_columns

(***************************************************************************)
(* C2.  read_query asks something of the backend (a health check, a        *)
(* connection, an execution) only for a query for which validate_sql       *)
(* returns the empty list; a query with violations makes the call raise    *)
(* the group of exactly these violations, with nothing asked of the        *)
(* backend and the connection state, the back-off delay and the cache      *)
(* left as they were.                                                      *)
(***************************************************************************)
C2_BackendOnlyAfterValidation ==
  [][LET errors == validate_sql(self, sql', 0).value
     IN /\ (used' # NoUse \/ pc' # "idle") => (errors = <<>>)
        /\ (errors # <<>>) =>
             /\ result'.outcome = "ExceptionGroup"
             /\ result'.value = errors
             /\ used' = NoUse
             /\ pc' = "idle"
             /\ UNCHANGED <<_conn, conn, _connect_retry_delay, cache>>]_vars

\* A rejected call made while the connection was cleared by a failed call.
C2_Witness ==
  /\ result.outcome = "ExceptionGroup"
  /\ sql = Q_source_value
  /\ Len(result.value) = 1
  /\ _conn = "None"
  /\ _connect_retry_delay > INITIAL_RETRY_DELAY
  /\ used = NoUse

(***************************************************************************)
(* C3.  For a SELECT, each of the four checks whose condition is met       *)
(* contributes its error in the same call: a non-OMOP table, an excluded   *)
(* table, an excluded column and a source-value column are each reported,  *)
(* whatever the other checks found.                                        *)
(***************************************************************************)
C3_EveryFailingCheckReports ==
  (Returned /\ IsSelect) =>
    /\ (NonOmopTables # {}) => (NotOmopErrors # {})
    /\ (ExcludedTables # {}) => (ExcludedTableErrors # {})
    /\ (ExcludedColumns # {}) => (ExcludedColumnErrors # {})
    /\ (SourceValueColumns # {} /\ ~self.allow_source_value_columns)
          => (SourceValueErrors # {})

C3_Witness ==
  /\ Returned /\ IsSelect
  /\ ExcludedTables # {} /\ ExcludedColumns # {}
  /\ ExcludedTableErrors # {} /\ ExcludedColumnErrors # {}

(***************************************************************************)
(* C4 as stated.  With table X excluded, any statement that references X   *)
(* yields exactly one UnauthorizedTableError, and it names X.              *)
(***************************************************************************)
C4_AnyReferenceYieldsUnauthorizedTable ==
  (Returned /\ Parsed /\ ExcludedTables # {}) =>
    /\ Cardinality(ErrorsOfClass("UnauthorizedTableError")) = 1
    /\ \A i \in ErrorsOfClass("UnauthorizedTableError") :
         \A x \in ExcludedTables : Names(ret.value[i], x)

(***************************************************************************)
(* C4 amended.  With table X excluded, any statement that parses to a      *)
(* SELECT and references X yields exactly one UnauthorizedTableError, and  *)
(* it names X, however many times X appears.                               *)
(***************************************************************************)
C4_SelectReferenceYieldsOneUnauthorizedTable ==
  (Returned /\ IsSelect /\ ExcludedTables # {}) =>
    /\ Cardinality(ErrorsOfClass("UnauthorizedTableError")) = 1
    /\ \A i \in ErrorsOfClass("UnauthorizedTableError") :
         \A x \in ExcludedTables : Names(ret.value[i], x)

\* The excluded table appears twice in the statement.
C4_Witness ==
  /\ Returned /\ IsSelect
  /\ \E i, j \in 1..Len(sql.tables) :
       i # j /\ sql.tables[i] = sql.tables[j] /\ sql.tables[i] \in ExcludedTables
  /\ Cardinality(ExcludedTableErrors) = 1

C6_NotOmopErrorIffNonMember ==
  (Returned /\ IsSelect) =>
    /\ (NotOmopErrors # {}) <=> (NonOmopTables # {})
    /\ Cardinality(NotOmopErrors) <= 1
    /\ \A i \in NotOmopErrors :
         \A t \in NonOmopTables : Names(ret.value[i], t)
    /\ (Len(sql.tables) = 1 /\ Len(sql.columns) = 1 /\ NonOmopTables = {}) =>
         \A k \in DOMAIN OMOP_TABLES :
           LET r == validate_sql(self, [sql EXCEPT !.tables = <<OMOP_TABLES[k]>>],
                                 fault)
           IN \A i \in 1..Len(r.value) :
                r.value[i].message[1] # "Tables not found in OMOP CDM: "

\* Two different tables outside the list, in one statement.
C6_Witness ==
  /\ Returned /\ IsSelect
  /\ Cardinality(NonOmopTables) = 2
  /\ Cardinality(NotOmopErrors) = 1

(***************************************************************************)
(* C7.  The returned list is empty exactly when the text parses, the root  *)
(* is a SELECT, there are a table and a column reference, every table is   *)
(* canonical and not excluded, no column is excluded, and source-value     *)
(* columns are allowed or absent.                                          *)
(***************************************************************************)
C7_EmptyIffSafe ==
  Returned =>
    ((ret.value = <<>>) <=>
       /\ IsSelect
       /\ sql.tables # <<>>
       /\ sql.columns # <<>>
       /\ NonOmopTables = {}
       /\ ExcludedTables = {}
       /\ ExcludedColumns = {}
       /\ (self.allow_source_value_columns \/ SourceValueColumns = {}))

\* A statement that passes although the policy has both exclusion lists.
C7_Witness ==
  /\ Returned /\ ret.value = <<>>
  /\ self.exclude_tables # <<>> /\ self.exclude_columns # <<>>
  /\ Len(sql.columns) = 2

(***************************************************************************)
(* C8.  When the text cannot be parsed the returned list holds exactly     *)
(* one error, the exception of the parser, and no step after parse_one     *)
(* was run.                                                                *)
(***************************************************************************)
C8_ParseFailureYieldsOneError ==
  (Returned /\ ~Parsed) =>
    /\ Len(ret.value) = 1
    /\ ret.value[1].type = sql.parse
    /\ ret.ran = <<"parse_one">>

C8_Witness ==
  /\ Returned /\ sql.parse = "ParseError"
  /\ self.exclude_tables # <<>>

(***************************************************************************)
(* C9.  validate_sql never raises: whatever the text and the policy, also  *)
(* when the text does not parse, when the statement is not a SELECT and    *)
(* when a check fails, every call ends by returning a list all of whose    *)
(* elements are errors.                                                    *)
(***************************************************************************)
C9_AlwaysReturnsErrorList ==
  (log # <<>>) =>
    /\ ret.outcome = "return"
    /\ \A i \in 1..Len(ret.value) : ret.value[i].type \in ExceptionClasses

\* The third check failed after the no-columns error had been appended.
C9_Witness ==
  /\ log # <<>> /\ fault = 3 /\ IsSelect
  /\ ret.outcome = "return"
  /\ Len(ret.value) >= 2
  /\ ret.value[Len(ret.value)].type = "Exception"

RECURSIVE InOrderFrom(_, _, _)
InOrderFrom(text, msgs, from) ==
  IF msgs = <<>> THEN TRUE
  ELSE \E i \in from..(Len(text) - Len(msgs[1]) + 1) :
         /\ SubSeq(text, i, i + Len(msgs[1]) - 1) = msgs[1]
         /\ InOrderFrom(text, Tail(msgs), i + Len(msgs[1]))

\* The violations the validator finds in the statement of the latest call.
Violations == validate_sql(self, sql, fault).value

(***************************************************************************)
(* C11.  When the validation of a query fails with n >= 1 violations, the  *)
(* Select_Query tool returns an error result (isError true) with one text  *)
(* block that contains the message of every one of the n violations, in    *)
(* the validator's order, never only the first.                            *)
(***************************************************************************)
C11_ToolReportsEveryViolation ==
  (pc = "idle" /\ sql # NoQuery /\ Violations # <<>>) =>
    /\ response.returned /\ response.isError
    /\ Len(response.content) = 1
    /\ InOrderFrom(response.content[1].text,
                   [i \in 1..Len(Violations) |-> str(Violations[i])], 1)

\* SELECT gender_source_value FROM users: a table that is not OMOP and a
\* source-value column, both reported.
C11_Witness ==
  /\ pc = "idle" /\ sql = Q_users_source_value
  /\ Len(Violations) = 2
  /\ Violations[1].type = "TableNotFoundError"
  /\ Violations[2].type = "UnauthorizedColumnError"
  /\ response.isError
  /\ Contains(response.content[1].text, str(Violations[2]))

(***************************************************************************)
(* Vocabulary of the properties of the transpiler.                         *)
(***************************************************************************)
\* The nodes of a tree.
RECURSIVE Subtrees(_)
Subtrees(t) == {t} \cup UNION {Subtrees(t.args[k]) : k \in 1..Len(t.args)}

PostgresToDatabricks ==
  source_dialect = "postgres" /\ target_dialect = "databricks"

\* the rewrite loop is over (or was not entered)
Rewritten == tpc \in {"generate", "done"}

\* The expression in place k of a SELECT statement: an expression of the
\* select list, or the condition of a WHERE or JOIN clause.
ExpressionAt(stmt, k) ==
  IF stmt.args[k].kind \in ClauseKinds
    THEN stmt.args[k].args[Len(stmt.args[k].args)]
    ELSE stmt.args[k]

WithoutTimestampCast(e) ==
  IF e.kind = "Cast" /\ e.name = "TIMESTAMP" THEN e.args[1] ELSE e

IsYearExtract(e) == e.kind = "Extract" /\ e.name \in {"YEAR", "year", "Year"}

\* a subtraction with an operand that is EXTRACT(YEAR FROM ...), bare or in
\* CAST(... AS TIMESTAMP)
YearSubtraction(s) ==
  /\ s.kind = "Sub"
  /\ \/ IsYearExtract(WithoutTimestampCast(s.args[1]))
     \/ IsYearExtract(WithoutTimestampCast(s.args[2]))

DateSubtraction(s) == s.kind = "Sub" /\ ~YearSubtraction(s)

IsNumericValue(n) ==
  \/ n.kind \in {"Literal.number", "Placeholder", "Parameter"}
  \/ /\ n.kind = "Cast"
     /\ n.args[1].kind \in {"Literal.number", "Placeholder", "Parameter"}

Datediff(s) ==
  Anonymous("DATEDIFF", <<WithoutTimestampCast(s.args[1]),
                          WithoutTimestampCast(s.args[2])>>)

C13_DateComparisonBecomesDatediff ==
  (tpc = "done" /\ PostgresToDatabricks) =>
    \A k \in 1..Len(statement.args) :
      LET c == ExpressionAt(statement, k)
          s == IF c.args[1].kind = "Paren" THEN c.args[1].args[1]
               ELSE c.args[1]
      IN (/\ c.kind \in Comparisons
          /\ c.args[1].kind \in {"Paren", "Sub"}
          /\ DateSubtraction(s)
          /\ IsNumericValue(c.args[2]))
         => ExpressionAt(tree, k) = Binary(c.kind, Datediff(s), c.args[2])

\* (CAST(a.condition_start_date AS TIMESTAMP) - b.index_date) >= CAST(:days AS INT)
C13_Witness ==
  /\ tpc = "done" /\ PostgresToDatabricks
  /\ statement =
       SelectWhere(Binary("GTE",
                     Paren(Sub(Cast(ColA, "TIMESTAMP"), ColB)),
                     Cast(Placeholder("days"), "INT")))
  /\ tree =
       SelectWhere(Binary("GTE",
                     Anonymous("DATEDIFF", <<ColA, ColB>>),
                     Cast(Placeholder("days"), "INT")))

\* a range-overlap check with a multiplication inside an operand
HasNestedIntersection(t) ==
  \E n \in Subtrees(t) :
    /\ n.kind = "ArrayOverlaps"
    /\ \E m \in Subtrees(n) : m.kind = "Mul"

RangeOperators(t) == {n \in Subtrees(t) : n.kind \in {"ArrayOverlaps", "Mul"}}

(***************************************************************************)
(* C14.  For a statement with a range intersection nested inside a         *)
(* range-overlap check (chains of up to MaxNest intersections), the        *)
(* rewrite loop ends with a pass that changes nothing, within the cap of   *)
(* max_iterations passes, and the final tree has no range-overlap and no   *)
(* range-intersection operator left.                                       *)
(***************************************************************************)
C14_NestedRangesConverge ==
  (Rewritten /\ PostgresToDatabricks /\ HasNestedIntersection(statement)) =>
    /\ passes >= 1 /\ passes <= max_iterations
    /\ old_sql = new_sql
    /\ new_sql = tree_sql(tree)
    /\ RangeOperators(tree) = {}

\* (DATERANGE(...) * DATERANGE(...) * DATERANGE(...)) && d2.dr: the struct
\* of the ranges, then the outer, then the inner intersection, then a pass
\* without change
C14_Witness ==
  /\ tpc = "done" /\ PostgresToDatabricks
  /\ statement =
       SelectWhere(ArrayOverlaps(
         Paren(IntersectionChain(DateRange("d1"), 2, FALSE)),
         Column2("d2", "dr")))
  /\ passes = 5
  /\ old_sql = new_sql
  /\ RangeOperators(tree) = {}

(***************************************************************************)
(* C15.  The output of the rewriter is a fixed point of the rules,         *)
(* whatever the nesting depth of the patterns: one more transform pass on  *)
(* the returned tree changes nothing.                                      *)
(***************************************************************************)
C15_OutputIsFixedPoint ==
  (tpc = "done" /\ PostgresToDatabricks) =>
    /\ transform(tree) = tree
    /\ tree_sql(transform(tree)) = tree_sql(tree)

(***************************************************************************)
(* C16.  The rewrite loop makes at most max_iterations = 10 transform      *)
(* passes and is left by the tenth; a pass is made only while no earlier   *)
(* pass left the text unchanged, and the pass whose output text equals its *)
(* input text is the last one.                                             *)
(***************************************************************************)
C16_LoopStopsAtFirstStablePassOrCap ==
  [][/\ passes' <= 10
     /\ (passes' = 10 => tpc' # "loop")
     /\ (passes' # passes =>
           /\ passes' = passes + 1
           /\ (passes > 0 => old_sql # new_sql)
           /\ old_sql' = tree_sql(tree)
           /\ new_sql' = tree_sql(tree')
           /\ (old_sql' = new_sql' => tpc' # "loop")
           /\ (old_sql' # new_sql' /\ passes' < 10 => tpc' = "loop"))]_vars

\* Eleven chained additions: the loop is left by its tenth pass, which
\* still changed the text.
C16_Witness ==
  /\ tpc = "done" /\ PostgresToDatabricks
  /\ statement = SelectOf(AddChain(11))
  /\ passes = 10
  /\ old_sql # new_sql

(***************************************************************************)
(* C17.  Every query that read_query executes on the backend, in the first *)
(* try and in the second try after a reconnect alike, is limited to        *)
(* row_limit rows, and row_limit is 1000.                                  *)
(***************************************************************************)
C17_EveryExecutionIsLimited ==
  /\ row_limit = 1000
  /\ Len(used.limits) = used.execute
  /\ \A k \in 1..Len(used.limits) : used.limits[k] = 1000

\* A call whose first execution failed and whose second succeeded.
C17_Witness ==
  /\ pc = "idle" /\ retrying
  /\ result.outcome = "return"
  /\ used.execute = 2
  /\ used.limits = <<1000, 1000>>

\* The upper-case letter of each lower-case letter.
ToUpper ==
  [c \in {LOWERCASE[k] : k \in DOMAIN LOWERCASE} |->
     UPPERCASE[CHOOSE k \in DOMAIN LOWERCASE : LOWERCASE[k] = c]]

\* a name, and a list of names, written in upper case or in lower case
InCase(up, name) ==
  [k \in 1..Len(name) |->
     IF up THEN (IF name[k] \in DOMAIN ToUpper THEN ToUpper[name[k]] ELSE name[k])
     ELSE (IF name[k] \in DOMAIN ToLower THEN ToLower[name[k]] ELSE name[k])]

AllInCase(up, names) == [k \in 1..Len(names) |-> InCase(up, names[k])]

(***************************************************************************)
(* C18.  Table and column matching is case-insensitive: the list of        *)
(* violations (excluded tables, excluded columns, tables that are not      *)
(* OMOP, source-value columns) is the same whatever the letter case of the *)
(* names in the policy lists and of the names in the query.                *)
(***************************************************************************)
C18_VerdictIgnoresLetterCase ==
  (Returned /\ Parsed) =>
    \A up \in BOOLEAN :
      LET policy == SQLValidator(self.allow_source_value_columns,
                                 ListArg(AllInCase(up, self.exclude_tables)),
                                 ListArg(AllInCase(up, self.exclude_columns)))
          query == [sql EXCEPT !.tables = AllInCase(up, @),
                               !.columns = AllInCase(up, @)]
      IN /\ validate_sql(policy, sql, 0).value = ret.value
         /\ validate_sql(self, query, 0).value = ret.value
         /\ validate_sql(policy, query, 0).value = ret.value

\* Person and Visits, Year_Of_Birth and GENDER_SOURCE_CONCEPT_ID against a
\* policy given as PERSON and YEAR_OF_BIRTH: all four checks report.
C18_Witness ==
  /\ Returned /\ IsSelect
  /\ sql.tables = <<S_Person, S_Visits>>
  /\ sql.columns = <<S_Year_Of_Birth, S_GENDER_SOURCE_CONCEPT_ID>>
  /\ ~self.allow_source_value_columns
  /\ self.exclude_tables # <<>> /\ self.exclude_columns # <<>>
  /\ Len(ret.value) = 4

\* The subtractions written in a tree.
SubtractionsOf(t) == {n \in Subtrees(t) : n.kind = "Sub"}

\* A subtraction s as the left operand of a comparison: bare, in
\* parentheses, or inside ABS(...).
WrittenAs(s) == {s, Paren(s), Abs(s), Abs(Paren(s))}

\* the comparisons with a numeric right operand written in a tree
NumericComparisons(t) ==
  {c \in Subtrees(t) : c.kind \in Comparisons /\ IsNumericValue(c.args[2])}

(***************************************************************************)
(* C19 as stated.  Postgres to Databricks: every subtraction A - B whose   *)
(* operands are not EXTRACT(YEAR ...) is replaced by DATEDIFF(A, B),       *)
(* wherever it occurs in the statement, inside or outside a comparison.    *)
(***************************************************************************)
C19_EverySubtractionBecomesDatediff ==
  (tpc = "done" /\ PostgresToDatabricks) =>
    \A s \in SubtractionsOf(statement) :
      DateSubtraction(s) =>
        /\ s \notin Subtrees(tree)
        /\ Datediff(s) \in Subtrees(tree)

(***************************************************************************)
(* C19.  Postgres to Databricks: a subtraction A - B whose operands are    *)
(* not EXTRACT(YEAR ...) is replaced by DATEDIFF(A, B) when it is the left *)
(* operand (bare, in parentheses, or inside ABS(...)) of a comparison with *)
(* a numeric right operand that is an expression of the select list or the *)
(* condition of a WHERE or JOIN clause; a subtraction that is not inside a *)
(* comparison with a numeric right operand is left a subtraction.          *)
(***************************************************************************)
C19_SubtractionInNumericComparisonBecomesDatediff ==
  (tpc = "done" /\ PostgresToDatabricks) =>
    /\ \A k \in 1..Len(statement.args) :
         LET c == ExpressionAt(statement, k)
         IN (c.kind \in Comparisons /\ IsNumericValue(c.args[2])) =>
              \A s \in SubtractionsOf(c.args[1]) :
                (DateSubtraction(s) /\ c.args[1] \in WrittenAs(s)) =>
                  /\ Datediff(s) \in Subtrees(ExpressionAt(tree, k))
                  /\ SubtractionsOf(ExpressionAt(tree, k)) = {}
                  /\ ExpressionAt(tree, k).kind = c.kind
                  /\ ExpressionAt(tree, k).args[2] = c.args[2]
    /\ \A s \in SubtractionsOf(statement) :
         (\A c \in NumericComparisons(statement) : s \notin Subtrees(c))
           => s \in SubtractionsOf(tree)

\* ABS((CAST(a.condition_start_date AS TIMESTAMP) - b.index_date)) < $1
\* becomes ABS(DATEDIFF(a.condition_start_date, b.index_date)) < $1
C19_Witness ==
  /\ tpc = "done" /\ PostgresToDatabricks
  /\ statement =
       SelectWhere(Binary("LT", Abs(Paren(Sub(Cast(ColA, "TIMESTAMP"), ColB))),
                          Parameter("1")))
  /\ tree =
       SelectWhere(Binary("LT", Abs(Anonymous("DATEDIFF", <<ColA, ColB>>)),
                          Parameter("1")))

\* the loop has started: tree holds the parsed statement or a rewrite of it
Parsed_Tree == tpc \in {"loop", "generate", "done"}

(***************************************************************************)
(* C20.  A subtraction with an operand that is EXTRACT(YEAR FROM ...)      *)
(* (a CAST ... AS TIMESTAMP around it removed) is never rewritten to       *)
(* DATEDIFF: the date-subtraction matcher reports no match for it, and the *)
(* comparison whose left operand holds it (bare, in parentheses, inside    *)
(* ABS(...) or inside the epoch-day pattern) stays as written in every     *)
(* pass.                                                                   *)
(***************************************************************************)
C20_YearSubtractionIsNotRewritten ==
  (Parsed_Tree /\ PostgresToDatabricks) =>
    \A k \in 1..Len(statement.args) :
      LET c == ExpressionAt(statement, k)
      IN \A s \in SubtractionsOf(c) :
           YearSubtraction(s) =>
             /\ _extract_date_operands_from_sub(s) = <<NoNode, NoNode>>
             /\ (c.kind \in Comparisons /\ c.args[1] \in LeftShapes(s)) =>
                  /\ ExpressionAt(tree, k) = c
                  /\ \A n \in Subtrees(tree) :
                       ~(n.kind = "Anonymous" /\ n.name = "DATEDIFF")

\* ABS(CAST(EXTRACT(year FROM a.condition_start_date) AS TIMESTAMP)
\*     - b.index_date) <= 30, through the loop and out unchanged
C20_Witness ==
  /\ tpc = "done" /\ PostgresToDatabricks
  /\ passes = 1
  /\ statement =
       SelectWhere(LTE(Abs(Sub(Cast(Extract("year", ColA), "TIMESTAMP"), ColB)),
                       Literal_number("30")))
  /\ tree = statement
  /\ transpiled.text = tree_sql(statement)

(***************************************************************************)
(* C21.  Postgres to Databricks: a comparison whose left operand is        *)
(* CAST(EXTRACT(EPOCH FROM (A - B)) / 86400 AS BIGINT), the subtraction in *)
(* parentheses inside EXTRACT or not, and whose right operand is a numeric *)
(* value comes out with DATEDIFF(A, B) as its left operand: the cast, the  *)
(* division and the EXTRACT are gone.                                      *)
(***************************************************************************)
C21_EpochDaysBecomesDatediff ==
  (tpc = "done" /\ PostgresToDatabricks) =>
    \A k \in 1..Len(statement.args) :
      LET c == ExpressionAt(statement, k)
      IN \A s \in SubtractionsOf(c) :
           (/\ c.kind \in Comparisons
            /\ IsNumericValue(c.args[2])
            /\ DateSubtraction(s)
            /\ c.args[1] \in {EpochDays(s), EpochDays(Paren(s))})
           => ExpressionAt(tree, k) = Binary(c.kind, Datediff(s), c.args[2])

\* An operand that looks like a range: a multiplication, a struct, or a
\* column or field reference that is not an access to .start or .end;
\* parentheses around it do not count.
LooksLikeRange(e) ==
  LET x == IF e.kind = "Paren" THEN e.args[1] ELSE e
  IN \/ x.kind \in {"Mul", "Struct"}
     \/ /\ x.kind = "Column"
        /\ x.args[1].name \notin {"start", "end"}
     \/ /\ x.kind = "Dot"
        /\ x.args[2].name \notin {"start", "end"}

\* An operand of ordinary arithmetic: a literal, a function call, or an
\* access to the field .start or .end.
ArithmeticOperand(e) ==
  LET x == IF e.kind = "Paren" THEN e.args[1] ELSE e
  IN \/ x.kind \in {"Literal.number", "Literal.string", "Anonymous"}
     \/ /\ x.kind \in {"Column", "Dot"}
        /\ IF x.kind = "Column" THEN x.args[1].name \in {"start", "end"}
           ELSE x.args[2].name \in {"start", "end"}

\* {start: GREATEST(l.start, r.start), end: LEAST(l.end, r.end)}
Intersection(l, r) ==
  Struct(<<PropertyEQ(Identifier("start"),
             Anonymous("GREATEST", <<Dot(l, Identifier("start")),
                                     Dot(r, Identifier("start"))>>)),
           PropertyEQ(Identifier("end"),
             Anonymous("LEAST", <<Dot(l, Identifier("end")),
                                  Dot(r, Identifier("end"))>>))>>)

Unparenthesised(e) == IF e.kind = "Paren" THEN e.args[1] ELSE e

\* the multiplications of the tree a pass is about to visit
Multiplications(t) == {n \in Subtrees(t) : n.kind = "Mul"}

(***************************************************************************)
(* C22.  In every pass, a multiplication L * R is replaced by the struct   *)
(* {start: GREATEST(L.start, R.start), end: LEAST(L.end, R.end)} exactly   *)
(* when both operands look like ranges (a nested multiplication, a struct, *)
(* a column or identifier that is not a .start/.end access); with an       *)
(* operand that is a literal, a function call or a .start/.end access the  *)
(* multiplication is returned untouched, and a statement's multiplication  *)
(* of that kind, no operand being a range constructor, is a multiplication *)
(* in the output as well.                                                  *)
(***************************************************************************)
C22_MultiplicationOfRangesOnly ==
  (tpc \in {"loop", "generate", "done"} /\ PostgresToDatabricks) =>
    /\ \A m \in Multiplications(tree) :
         /\ transformer(m).replaced =>
              /\ LooksLikeRange(m.args[1]) /\ LooksLikeRange(m.args[2])
              /\ transformer(m).node =
                   Intersection(Unparenthesised(m.args[1]),
                                Unparenthesised(m.args[2]))
         /\ (ArithmeticOperand(m.args[1]) \/ ArithmeticOperand(m.args[2]))
              => transformer(m) = Same(m)
         /\ (LooksLikeRange(m.args[1]) /\ LooksLikeRange(m.args[2]))
              => transformer(m).replaced
    /\ tpc = "done" =>
         \A k \in 1..Len(statement.args) :
           LET m == ExpressionAt(statement, k)
           IN (/\ m.kind = "Mul"
               /\ ArithmeticOperand(m.args[1]) \/ ArithmeticOperand(m.args[2])
               /\ \A e \in Subtrees(m) : ~_is_daterange_call(e))
              => ExpressionAt(tree, k) = m

\* quantity * 2 came out as written, where r1 * r2 becomes the struct
C22_Witness ==
  /\ tpc = "done" /\ PostgresToDatabricks
  /\ passes = 1
  /\ statement = SelectOf(Mul(Column("quantity"), Literal_number("2")))
  /\ tree = statement
  /\ transformer(Mul(Column("r1"), Column("r2"))) =
       New(Intersection(Column("r1"), Column("r2")))

(***************************************************************************)
(* C23.  Connection handling is thread-safe: under every interleaving of   *)
(* concurrent read_query and get_information_schema calls, the connection  *)
(* a thread executes its query on, holding the lock, is an established one *)
(* (not None), and no other thread has cleared or replaced it since that   *)
(* thread's _ensure_connected returned.                                    *)
(***************************************************************************)
C23_ExecutesOnEnsuredConnection ==
  \A t \in Threads :
    threads[t].on # "nothing" =>
      /\ threads[t].on # "None"
      /\ ~threads[t].disturbed

\* the execution of the first try took place and failed
FirstExecutionFailed ==
  /\ used.again # <<>>
  /\ ~used.again[1]
  /\ retrying

(***************************************************************************)
(* C24 as stated.  Within one read_query call on a query that passed       *)
(* validation the backend executes the query at most twice; if the first   *)
(* execution fails the connection is cleared and established again and the *)
(* query is executed exactly once more; if the second execution fails the  *)
(* call raises QueryError, and there is no third.                          *)
(***************************************************************************)
C24_FailedExecutionIsRepeatedOnce ==
  /\ used.execute <= 2
  /\ (pc = "idle" /\ FirstExecutionFailed) =>
       /\ used.again = <<FALSE, TRUE>>
       /\ result.outcome \in {"return", "QueryError"}

(***************************************************************************)
(* C24.  Within one read_query call on a query that passed validation the  *)
(* backend executes the query at most twice, once in each try.  If the     *)
(* execution of the first try fails, the connection is cleared and         *)
(* _reconnect runs; when it connects, the query is executed exactly once   *)
(* more, and when all its attempts fail the query is not executed again.   *)
(* If the reconnection or the second execution fails the call raises       *)
(* QueryError; there is no third execution.                                *)
(***************************************************************************)
C24_AtMostTwoExecutions ==
  /\ used.execute <= 2
  /\ Len(used.again) = used.execute
  /\ \A k \in 1..Len(used.again) : used.again[k] <=> (k = 2 \/ used.again[1])
  /\ (pc # "idle" /\ FirstExecutionFailed /\ used.execute = 1
        /\ used.connect = 0) => _conn = "None"
  /\ (pc = "idle" /\ FirstExecutionFailed) =>
       \/ /\ used.again = <<FALSE, TRUE>>
          /\ used.connect >= 1
          /\ _conn = "open"
          /\ result.outcome \in {"return", "QueryError"}
       \/ /\ used.again = <<FALSE>>
          /\ used.connect >= max_retries
          /\ attempt = max_retries - 1
          /\ result.outcome = "QueryError"

\* both executions failed: QueryError after two executions
C24_Witness ==
  /\ pc = "idle"
  /\ FirstExecutionFailed
  /\ used.execute = 2
  /\ used.again = <<FALSE, TRUE>>
  /\ result.outcome = "QueryError"

\* a step of the loop of _reconnect, and how it ends
InReconnect == pc = "reconnect"

Connected == InReconnect /\ pc' = "execute"

NextAttempt == InReconnect /\ pc' = "reconnect"

Raised == InReconnect /\ pc' \notin {"reconnect", "execute"}

(***************************************************************************)
(* C25.  One call of _reconnect makes at most 3 connection attempts: it    *)
(* returns with an established connection that passed its test as soon as  *)
(* an attempt succeeds, it raises ConnectionError if and only if all 3      *)
(* attempts fail, and it sleeps (for the current delay) between attempts    *)
(* but not after the last one.                                              *)
(***************************************************************************)
C25_ReconnectMakesAtMostThreeAttempts ==
  [][InReconnect =>
       /\ attempt \in 0..2
       /\ used'.connect = used.connect + 1
       /\ Connected \/ NextAttempt \/ Raised
       /\ Connected =>
            /\ _conn' = "open"
            /\ used'.test = used.test + 1
            /\ used'.sleeps = used.sleeps
       /\ NextAttempt =>
            /\ attempt < 2
            /\ attempt' = attempt + 1
            /\ used'.sleeps = Append(used.sleeps, _connect_retry_delay)
       /\ Raised <=> (attempt = 2 /\ ~Connected)
       /\ Raised =>
            /\ used'.sleeps = used.sleeps
            /\ IF impl = "db" /\ ~retrying
                 THEN pc' = "ensure_connected" /\ retrying'
                 ELSE /\ pc' = "idle"
                      /\ result'.outcome =
                           IF retrying THEN "QueryError" ELSE "ConnectionError"]_vars

\* RobustOmopDatabase: three attempts failed, two sleeps, ConnectionError
C25_Witness ==
  /\ impl = "db_robust"
  /\ pc = "idle"
  /\ result.outcome = "ConnectionError"
  /\ used.connect = 3
  /\ used.sleeps = <<1, 2>>
  /\ attempt = 2

(***************************************************************************)
(* C26.  In every reachable state 1 <= _connect_retry_delay <= 10: the     *)
(* delay doubles, capped at 10, after each failed attempt that is not the   *)
(* last one of its _reconnect call, it equals 1 immediately after a        *)
(* successful connection, and nothing else changes it.                     *)
(***************************************************************************)
C26_DelayBetweenOneAndTen ==
  /\ [](_connect_retry_delay \in 1..10)
  /\ [][/\ NextAttempt =>
             _connect_retry_delay' =
               IF 2 * _connect_retry_delay > 10 THEN 10
               ELSE 2 * _connect_retry_delay
        /\ Connected => _connect_retry_delay' = 1
        /\ ~(NextAttempt \/ Connected) => UNCHANGED _connect_retry_delay]_vars

\* the cap at work: 8 seconds slept, 10 to come, in the third _reconnect
C26_Witness ==
  /\ pc = "reconnect"
  /\ _connect_retry_delay = 10
  /\ used.sleeps # <<>>
  /\ used.sleeps[Len(used.sleeps)] = 8

\* the step is a call of read_query(q)
CallOfQ == lru'.called = "q"

(***************************************************************************)
(* C27 as stated.  read_query of db.py is memoized per query string: after *)
(* one successful call for q, every later call with the same q returns the *)
(* same CSV without validating, connecting or executing again.             *)
(***************************************************************************)
C27_EveryLaterCallIsAnswered ==
  [][(CallOfQ /\ lru.memo # <<>>) =>
       /\ result'.outcome = "return"
       /\ result'.value = lru.memo
       /\ ~lru'.validated
       /\ ~lru'.asked]_vars

(***************************************************************************)
(* C27.  read_query of db.py is memoized per query string by               *)
(* lru_cache(maxsize=128): for as long as q is in the cache after a        *)
(* successful call, a call with the same q returns the stored CSV without  *)
(* validating, connecting or executing again, even if the connection has   *)
(* failed or been replaced in between; q leaves the cache only when it is  *)
(* the least recently used of 128 entries and another query is stored; a   *)
(* call that raised is not cached, and a call of q that is not in the      *)
(* cache is evaluated in full.                                             *)
(***************************************************************************)
C27_CachedCallIsAnswered ==
  [][/\ CallOfQ =>
          IF lru.rank # 0
            THEN /\ result'.outcome = "return"
                 /\ result'.value = lru.csv
                 /\ ~lru'.validated /\ ~lru'.asked
                 /\ UNCHANGED <<_conn, conn>>
                 /\ lru'.rank = 1 /\ lru'.csv = lru.csv
            ELSE /\ lru'.validated /\ lru'.asked
                 /\ IF result'.outcome = "return"
                      THEN lru'.rank = 1 /\ lru'.csv = result'.value
                      ELSE lru'.rank = 0
     /\ (lru.rank # 0 /\ lru'.rank = 0) =>
          /\ lru.size = maxsize /\ lru.rank = maxsize
          /\ lru'.called = "other"
          /\ result'.outcome = "return" /\ lru'.asked
     /\ (result'.outcome # "return") =>
          lru'.size = lru.size /\ lru'.rank = lru.rank]_vars

\* q answered from the cache while the connection is cleared
C27_Witness ==
  /\ lru.called = "q"
  /\ result.outcome = "return"
  /\ result.value = lru.memo
  /\ ~lru.validated /\ ~lru.asked
  /\ _conn = "None"
  /\ lru.size > 1

(***************************************************************************)
(* capture_context (src/src/omcp/main.py): the wrapper put around the two  *)
(* tool functions.  wrapper.invoked lists how each invocation of the       *)
(* wrapped function ended; wrapper.ex is the exception on its way out of   *)
(* the Langfuse block, wrapper.span what span.update has recorded and     *)
(* wrapper.logged what went to logger.error and logger.exception.          *)
(* Langfuse is an external service: each of its calls either succeeds or   *)
(* raises.                                                                 *)
(***************************************************************************)
Tools == {"Get_Information_Schema", "Select_Query"}

\* what one invocation of the tool function does
Invocations == {"result", "error result", "raise"}

InitWrapper ==
  /\ NoValidation
  /\ NoTranspiler
  /\ NoThreads
  /\ NoCache
  /\ wrapper = NoToolCall
  /\ route = NoRequest

WrapperLeavesAlone == UNCHANGED <<valvars, dbvars, trvars, thvars, lruvars, route>>

\* wrapper(*args, **kwargs) is entered: if langfuse: ... (line 125)
WrapperCalled(tool, langfuse) ==
  /\ wrapper.pc \in {"idle", "done"}
  /\ wrapper' = [NoToolCall EXCEPT !.tool = tool, !.langfuse = langfuse,
                   !.pc = IF langfuse THEN "read_trace_context" ELSE "func"]
  /\ WrapperLeavesAlone

\* except Exception as langfuse_error (lines 218-226) after the finally
\* clause of the inner try, if that was entered: the error is logged and
\* the wrapper falls through to line 229
LangfuseError(w, kind) ==
  [w EXCEPT !.pc = "func", !.ex = kind, !.context_token = "None",
     !.logged = Append(@, "Langfuse logging failed")]

\* trace_ctx = read_trace_context() ... context_token = attach(...)
ReadTraceContext(ok, traceparent) ==
  /\ wrapper.pc = "read_trace_context"
  /\ wrapper' =
       IF ok
         THEN [wrapper EXCEPT !.pc = "start_as_current_span",
                 !.context_token = IF traceparent THEN "token" ELSE "None"]
         ELSE LangfuseError(wrapper, "langfuse")
  /\ WrapperLeavesAlone

\* with langfuse.start_as_current_span(name=...) as span:
StartSpan(ok) ==
  /\ wrapper.pc = "start_as_current_span"
  /\ wrapper' = IF ok THEN [wrapper EXCEPT !.pc = "span.update(input)"]
                      ELSE LangfuseError(wrapper, "langfuse")
  /\ WrapperLeavesAlone

\* span.update(input=input_data)
UpdateInput(ok) ==
  /\ wrapper.pc = "span.update(input)"
  /\ wrapper' = IF ok THEN [wrapper EXCEPT !.pc = "traced func",
                                            !.span = Append(@, "input")]
                      ELSE LangfuseError(wrapper, "langfuse")
  /\ WrapperLeavesAlone

\* response = func(*args, **kwargs) inside the span (line 192)
InvokeTraced(how) ==
  /\ wrapper.pc = "traced func"
  /\ wrapper' =
       [wrapper EXCEPT !.invoked = Append(@, how),
          !.pc = IF how = "raise" THEN "except" ELSE "span.update(output)",
          !.ex = IF how = "raise" THEN "func" ELSE @]
  /\ WrapperLeavesAlone

\* span.update(output=...); return response (lines 194-200)
UpdateOutput(ok) ==
  /\ wrapper.pc = "span.update(output)"
  /\ wrapper' =
       IF ok
         THEN [wrapper EXCEPT !.pc = "done", !.outcome = "return",
                 !.span = Append(@, "output"),
                 !.response = wrapper.invoked[Len(wrapper.invoked)],
                 !.context_token = "None"]
         ELSE [wrapper EXCEPT !.pc = "except", !.ex = "langfuse"]
  /\ WrapperLeavesAlone

\* except Exception as ex: span.update(output=err_info); raise (202-212),
\* the exception leaves the with block and the finally clause and is
\* caught at line 218
ExceptInSpan(ok) ==
  /\ wrapper.pc = "except"
  /\ wrapper' =
       IF ok
         THEN LangfuseError([wrapper EXCEPT !.span = Append(@, "err_info"),
                               !.logged = Append(@, "Tool failed")],
                            wrapper.ex)
         ELSE LangfuseError(wrapper, "langfuse")
  /\ WrapperLeavesAlone

\* response = func(*args, **kwargs); return response (lines 229-234)
InvokePlain(how) ==
  /\ wrapper.pc = "func"
  /\ wrapper' =
       [wrapper EXCEPT !.invoked = Append(@, how), !.pc = "done",
          !.outcome = IF how = "raise" THEN "raise" ELSE "return",
          !.logged = IF how = "raise"
                       THEN Append(@, "Function execution failed") ELSE @,
          !.response = IF how = "raise" THEN "none" ELSE how]
  /\ WrapperLeavesAlone

NextWrapper ==
  \/ \E tool \in Tools, langfuse \in BOOLEAN : WrapperCalled(tool, langfuse)
  \/ \E ok \in BOOLEAN, traceparent \in BOOLEAN :
       ReadTraceContext(ok, traceparent)
  \/ \E ok \in BOOLEAN : StartSpan(ok)
  \/ \E ok \in BOOLEAN : UpdateInput(ok)
  \/ \E how \in Invocations : InvokeTraced(how)
  \/ \E ok \in BOOLEAN : UpdateOutput(ok)
  \/ \E ok \in BOOLEAN : ExceptInSpan(ok)
  \/ \E how \in Invocations : InvokePlain(how)

SpecWrapper == InitWrapper /\ [][NextWrapper]_vars

(***************************************************************************)
(* C28.  For each tool call, the capture_context wrapper invokes the       *)
(* wrapped tool function exactly once, whether Langfuse is disabled,       *)
(* enabled, or fails: neither an exception raised by the function nor a    *)
(* Langfuse failure after the function has run causes a second invocation. *)
(***************************************************************************)
C28_InvokedExactlyOnce ==
  /\ Len(wrapper.invoked) <= 1
  /\ wrapper.pc = "done" => Len(wrapper.invoked) = 1

(***************************************************************************)
(* The /query and /sql routes (src/app/api/routes.py) and the validation   *)
(* service behind them (src/app/services/validation.py).  A SQL text is a  *)
(* sequence of characters; a Markdown fence (three grave accents) is kept  *)
(* as one piece, written <fence>.  The                                     *)
(* language model, the validator agent and the database are external:      *)
(* each answers with one of a few texts or verdicts, or raises.            *)
(***************************************************************************)
SQL_person ==  \* SELECT * FROM person
  <<"S","E","L","E","C","T"," ","*"," ","F","R","O","M"," ","p","e","r","s",
    "o","n">>

SQL_drop ==  \* DROP TABLE person
  <<"D","R","O","P"," ","T","A","B","L","E"," ","p","e","r","s","o","n">>

SQL_update ==  \* update person set x=1
  <<"u","p","d","a","t","e"," ","p","e","r","s","o","n"," ","s","e","t"," ",
    "x","=","1">>

SQL_unbalanced ==  \* SELECT COUNT(* FROM person
  <<"S","E","L","E","C","T"," ","C","O","U","N","T","(","*"," ","F","R","O",
    "M"," ","p","e","r","s","o","n">>

SQL_quote ==  \* SELECT 'a FROM person
  <<"S","E","L","E","C","T"," ","'","a"," ","F","R","O","M"," ","p","e","r",
    "s","o","n">>

SQL_drug ==  \* SELECT drug FROM person
  <<"S","E","L","E","C","T"," ","d","r","u","g"," ","F","R","O","M"," ","p",
    "e","r","s","o","n">>

SQL_backdrop ==  \* SELECT backdrop table
  <<"S","E","L","E","C","T"," ","b","a","c","k","d","r","o","p"," ","t","a",
    "b","l","e">>

LLM_fenced ==  \* a fenced block around SELECT 1
  <<"<fence>sql","\n","S","E","L","E","C","T"," ","1","\n","<fence>">>

LLM_plain ==  \*  SELECT 2 and a newline
  <<" ","S","E","L","E","C","T"," ","2","\n">>

LLM_delete ==  \* a bare block around DELETE FROM person
  <<"<fence>","\n","D","E","L","E","T","E"," ","F","R","O","M"," ","p","e","r",
    "s","o","n","\n","<fence>">>

W_drop ==  \* drop
  <<"d","r","o","p">>

W_table ==  \* table
  <<"t","a","b","l","e">>

W_truncate ==  \* truncate
  <<"t","r","u","n","c","a","t","e">>

W_delete ==  \* delete
  <<"d","e","l","e","t","e">>

W_from ==  \* from
  <<"f","r","o","m">>

W_update ==  \* update
  <<"u","p","d","a","t","e">>

W_set ==  \* set
  <<"s","e","t">>

W_alter ==  \* alter
  <<"a","l","t","e","r">>

W_drug ==  \* drug
  <<"d","r","u","g">>

W_drug_exposure ==  \* drug_exposure
  <<"d","r","u","g","_","e","x","p","o","s","u","r","e">>

W_concept ==  \* concept
  <<"c","o","n","c","e","p","t">>

W_concept_id ==  \* concept_id
  <<"c","o","n","c","e","p","t","_","i","d">>

W_date ==  \* date
  <<"d","a","t","e">>

W_datetime ==  \* datetime
  <<"d","a","t","e","t","i","m","e">>

W_time ==  \* time
  <<"t","i","m","e">>

W_between ==  \* between
  <<"b","e","t","w","e","e","n">>

DIGITS == {"0","1","2","3","4","5","6","7","8","9"}

WordCharacters ==
  Range(LOWERCASE) \cup Range(UPPERCASE) \cup DIGITS \cup {"_"}

\* \w and \s of the re module
IsWord(c) == c \in WordCharacters

IsSpace(c) == c \in {" ", "\n", "\t"}

\* \b between s[i] and s[i + 1]
IsBoundary(s, i) ==
  (i >= 1 /\ IsWord(s[i])) # (i < Len(s) /\ IsWord(s[i + 1]))

\* word lies in s from position i on
IsAt(s, word, i) ==
  /\ i + Len(word) - 1 <= Len(s)
  /\ SubSeq(s, i, i + Len(word) - 1) = word

\* where \s+ and \w+ end when they begin at position i: the pattern that
\* follows them begins with a character they cannot take
RECURSIVE after_spaces(_, _)
after_spaces(s, i) ==
  IF i <= Len(s) /\ IsSpace(s[i]) THEN after_spaces(s, i + 1) ELSE i

RECURSIVE after_word(_, _)
after_word(s, i) ==
  IF i <= Len(s) /\ IsWord(s[i]) THEN after_word(s, i + 1) ELSE i

\* re.search(r'\bfirst\s+second\b', s)
search_pair(first, second, s) ==
  \E i \in 1..Len(s) :
    /\ IsAt(s, first, i)
    /\ IsBoundary(s, i - 1)
    /\ LET j == after_spaces(s, i + Len(first))
       IN /\ i + Len(first) < j
          /\ IsAt(s, second, j)
          /\ IsBoundary(s, j + Len(second) - 1)

\* re.search(r'\bupdate\s+\w+\s+set\b', s)
search_update(s) ==
  \E i \in 1..Len(s) :
    /\ IsAt(s, W_update, i)
    /\ IsBoundary(s, i - 1)
    /\ LET a == after_spaces(s, i + Len(W_update))
           b == after_word(s, a)
           j == after_spaces(s, b)
       IN /\ i + Len(W_update) < a /\ a < b /\ b < j
          /\ IsAt(s, W_set, j)
          /\ IsBoundary(s, j + Len(W_set) - 1)

\* prohibited_patterns (lines 96-102), any of them found
prohibited_patterns(s) ==
  \/ search_pair(W_drop, W_table, s)
  \/ search_pair(W_truncate, W_table, s)
  \/ search_pair(W_delete, W_from, s)
  \/ search_update(s)
  \/ search_pair(W_alter, W_table, s)

\* str.count for a one-character sub
count(s, c) == Cardinality({i \in 1..Len(s) : s[i] = c})

\* str.strip
RECURSIVE strip(_)
strip(s) ==
  IF s = <<>> THEN s
  ELSE IF IsSpace(s[1]) THEN strip(Tail(s))
  ELSE IF IsSpace(s[Len(s)]) THEN strip(SubSeq(s, 1, Len(s) - 1))
  ELSE s

\* where fence \s+(.*?)\s+<fence> can begin in text
block_starts(fence, text) ==
  {i \in 1..Len(text) :
     /\ text[i] = fence
     /\ \E j \in (i + 3)..Len(text) :
          text[j] = "<fence>" /\ IsSpace(text[i + 1]) /\ IsSpace(text[j - 1])}

\* re.findall(fence \s+(.*?)\s+<fence>, text, re.DOTALL)[0].strip()
first_block(fence, text) ==
  LET opens == block_starts(fence, text)
      i == CHOOSE x \in opens : \A y \in opens : x <= y
      closes == {j \in (i + 3)..Len(text) :
                   text[j] = "<fence>" /\ IsSpace(text[j - 1])}
      j == CHOOSE x \in closes : \A y \in closes : x <= y
  IN strip(SubSeq(text, i + 1, j - 1))

\* ValidationService._extract_sql_from_text
_extract_sql_from_text(text) ==
  IF block_starts("<fence>sql", text) # {}
    THEN first_block("<fence>sql", text)
  ELSE IF block_starts("<fence>", text) # {}
    THEN first_block("<fence>", text)
  ELSE strip(text)

\* the fallback of _load_validation_rules, and a rules file; neither has
\* required joins
FallbackRules ==
  [required_tables |-> <<>>, required_joins |-> <<>>, concept_tables |-> <<>>]

LoadedRules ==
  [required_tables |-> <<[when |-> W_drug, name |-> W_drug_exposure]>>,
   required_joins |-> <<>>,
   concept_tables |-> <<W_concept>>]

\* a rules file whose required table has no "when"
MalformedRules ==
  [required_tables |-> <<[name |-> W_drug_exposure]>>,
   required_joins |-> <<>>,
   concept_tables |-> <<>>]

ValidationRules == {FallbackRules, LoadedRules, MalformedRules}

\* the issues one required table adds (lines 112-119)
RECURSIVE required_tables_issues(_, _)
required_tables_issues(tables, sql_lower) ==
  IF tables = <<>> THEN <<>>
  ELSE LET table == tables[1]
           missing == /\ Contains(sql_lower, lower(table.when))
                      /\ ~Contains(sql_lower, lower(table.name))
       IN (IF missing
             THEN <<(<<"Missing required table ">> \o table.name
                      \o <<" when querying ">> \o table.when)>>
             ELSE <<>>)
          \o required_tables_issues(Tail(tables), sql_lower)

\* the warnings of the concept tables (lines 144-148)
RECURSIVE concept_tables_issues(_, _)
concept_tables_issues(tables, sql_lower) ==
  IF tables = <<>> THEN <<>>
  ELSE (IF /\ Contains(sql_lower, lower(tables[1]))
           /\ ~Contains(sql_lower, W_concept_id)
          THEN <<(<<"Warning: Querying ">> \o tables[1]
                   \o <<" without concept_id filter">>)>>
          ELSE <<>>)
       \o concept_tables_issues(Tail(tables), sql_lower)

\* ValidationService._local_validation: raised when a rule has no key
\* the loop reads, else ValidationResult(is_valid, issues)
_local_validation(validation_rules, sql_query) ==
  LET sql_lower == lower(sql_query)
      prohibited ==
        IF prohibited_patterns(sql_lower)
          THEN <<(<<"Query contains prohibited operations (DROP, TRUNCATE, DELETE, UPDATE, ALTER)">>)>>
          ELSE <<>>
      required ==
        required_tables_issues(validation_rules.required_tables, sql_lower)
      concept ==
        concept_tables_issues(validation_rules.concept_tables, sql_lower)
      temporal ==
        IF /\ \E term \in {W_date, W_datetime, W_time} :
                Contains(sql_lower, term)
           /\ ~\E term \in {W_between, <<">">>, <<"<">>, <<">", "=">>,
                            <<"<", "=">>} : Contains(sql_lower, term)
          THEN <<(<<"Warning: Temporal query without date range filter">>)>>
          ELSE <<>>
      parentheses ==
        IF count(sql_query, "(") # count(sql_query, ")")
          THEN <<(<<"SQL syntax error: Unbalanced parentheses">>)>>
          ELSE <<>>
      quotes ==
        (IF count(sql_query, "'") % 2 # 0
           THEN <<(<<"SQL syntax error: Unclosed ", "'", " quotes">>)>>
           ELSE <<>>)
        \o (IF count(sql_query, "\"") % 2 # 0
              THEN <<(<<"SQL syntax error: Unclosed ", "\"", " quotes">>)>>
              ELSE <<>>)
  IN IF \E i \in 1..Len(validation_rules.required_tables) :
          "when" \notin DOMAIN validation_rules.required_tables[i]
       THEN [raised |-> TRUE, is_valid |-> FALSE, issues |-> <<>>]
       ELSE [raised |-> FALSE,
             is_valid |-> /\ prohibited = <<>> /\ required = <<>>
                          /\ parentheses = <<>> /\ quotes = <<>>,
             issues |-> prohibited \o required \o concept \o temporal
                        \o parentheses \o quotes]

\* what the validator agent does with a query
Agents == {"not configured", "error", "raises", "valid", "invalid"}

\* ValidationService._agent_validation: (is_valid, issues)
_agent_validation(agent) ==
  CASE agent = "not configured" -> [is_valid |-> TRUE, issues |-> <<>>]
    [] agent = "error" ->
         [is_valid |-> TRUE, issues |-> <<(<<"Warning: ", "error">>)>>]
    [] agent = "raises" ->
         [is_valid |-> TRUE,
          issues |-> <<(<<"Warning: SQL validation error: ", "raises">>)>>]
    [] agent = "valid" -> [is_valid |-> TRUE, issues |-> <<>>]
    [] agent = "invalid" ->
         [is_valid |-> FALSE, issues |-> <<(<<"agent issue">>)>>]

\* what ollama_service.generate_sql answers to the refinement prompt
Refinements ==
  {<<"raise">>, LLM_fenced, LLM_plain, LLM_delete, SQL_person, SQL_quote}

\* ValidationService.refine_with_llm: (successful, refined_sql, issues)
refine_with_llm(validation_rules, sql_query, issues, llm, agent) ==
  LET refined_sql == _extract_sql_from_text(llm)
      validation == _local_validation(validation_rules, refined_sql)
      verdict == _agent_validation(agent)
  IN IF llm = <<"raise">> \/ validation.raised
       THEN [successful |-> FALSE, refined_sql |-> sql_query,
             issues |-> <<(<<"LLM refinement error: ", "raise">>)>> \o issues]
     ELSE IF ~validation.is_valid
       THEN [successful |-> FALSE, refined_sql |-> refined_sql,
             issues |-> validation.issues]
     ELSE IF ~verdict.is_valid
       THEN [successful |-> FALSE, refined_sql |-> refined_sql,
             issues |-> verdict.issues]
     ELSE [successful |-> TRUE, refined_sql |-> refined_sql, issues |-> <<>>]

NotAttempted == [successful |-> FALSE, refined_sql |-> <<"None">>, issues |-> <<"None">>]

\* ValidationService.validate_and_refine_query: the result dict, or the
\* exception of validate_query raised again
validate_and_refine_query(validation_rules, sql_query, llm, agent) ==
  LET validation == _local_validation(validation_rules, sql_query)
      refinement == refine_with_llm(validation_rules, sql_query,
                                    validation.issues, llm, agent)
      result_dict(r) ==
        [raised |-> FALSE,
         is_valid |-> validation.is_valid \/ r.successful,
         original_sql |-> sql_query,
         issues |-> IF r.successful THEN <<>> ELSE validation.issues,
         refinement_attempted |-> ~validation.is_valid,
         refinement_successful |-> r.successful,
         refined_sql |-> r.refined_sql,
         refined_issues |-> r.issues]
  IN IF validation.raised THEN [raised |-> TRUE]
     ELSE IF validation.is_valid THEN result_dict(NotAttempted)
     ELSE result_dict(refinement)

\* the route keeps the generated query
OriginalSQL(sql_query, validation_result) == sql_query

\* sql_query after "Use refined SQL if refinement was successful"
UsedSQL(sql_query, validation_result) ==
  IF validation_result.refinement_successful
    THEN validation_result.refined_sql
    ELSE sql_query

Paths == {"/query", "/sql"}

\* what ollama_service.generate_sql answers to the question
Generated ==
  {<<"raise">>, SQL_person, SQL_drop, SQL_update, SQL_unbalanced, SQL_quote,
   SQL_drug, SQL_backdrop}

InitRoute ==
  /\ NoValidation
  /\ NoTranspiler
  /\ NoThreads
  /\ NoCache
  /\ wrapper = NoToolCall
  /\ route = NoRequest

RouteLeavesAlone ==
  UNCHANGED <<valvars, dbvars, trvars, thvars, lruvars, wrapper>>

\* except Exception as e: raise HTTPException(status_code=500, ...)
InternalServerError(r) == [r EXCEPT !.pc = "done", !.status_code = 500]

\* POST /api/v1/query or /api/v1/sql: the ValidationService is built and
\* sql_query, confidence = await ollama_service.generate_sql(...)
Request(path, validation_rules, generated) ==
  /\ route.pc \in {"idle", "done"}
  /\ route' =
       IF generated = <<"raise">>
         THEN InternalServerError(
                [NoRequest EXCEPT !.path = path,
                                  !.validation_rules = validation_rules])
         ELSE [NoRequest EXCEPT !.path = path, !.pc = "validate",
                 !.validation_rules = validation_rules,
                 !.generated = generated, !.sql_query = generated]
  /\ RouteLeavesAlone

\* validation_result = await
\*     validation_service.validate_and_refine_query(sql_query)
ValidateAndRefine(llm, agent) ==
  /\ route.pc = "validate"
  /\ LET validation_result ==
           validate_and_refine_query(route.validation_rules, route.sql_query,
                                     llm, agent)
     IN route' =
          IF validation_result.raised
            THEN InternalServerError(route)
            ELSE [route EXCEPT !.pc = "decide",
                    !.validation_result = validation_result,
                    !.refinement =
                      IF validation_result.refinement_attempted
                        THEN [llm |-> llm, agent |-> agent]
                        ELSE @]
  /\ RouteLeavesAlone

\* if validation_result["refinement_successful"]: ... elif not
\* validation_result["is_valid"]: raise HTTPException(400)
Decide ==
  /\ route.pc = "decide"
  /\ route' =
       IF \/ route.validation_result.refinement_successful
          \/ route.validation_result.is_valid
         THEN [route EXCEPT !.pc = "execute",
                 !.sql_query = UsedSQL(@, route.validation_result)]
         ELSE [route EXCEPT !.pc = "done", !.status_code = 400]
  /\ RouteLeavesAlone

\* result = await sql_service.execute_query(sql_query)
ExecuteQuery(ok) ==
  /\ route.pc = "execute"
  /\ LET r == [route EXCEPT !.executed = Append(@, route.sql_query)]
     IN route' =
          IF ~ok THEN InternalServerError(r)
          ELSE IF route.path = "/query"
            THEN [r EXCEPT !.pc = "generate_answer"]
            ELSE [r EXCEPT !.pc = "done", !.status_code = 200]
  /\ RouteLeavesAlone

\* answer = await ollama_service.generate_answer(...); return
GenerateAnswer(ok) ==
  /\ route.pc = "generate_answer"
  /\ route' = IF ok THEN [route EXCEPT !.pc = "done", !.status_code = 200]
                    ELSE InternalServerError(route)
  /\ RouteLeavesAlone

NextRoute ==
  \/ \E path \in Paths, validation_rules \in ValidationRules,
        generated \in Generated : Request(path, validation_rules, generated)
  \/ \E llm \in Refinements, agent \in Agents : ValidateAndRefine(llm, agent)
  \/ Decide
  \/ \E ok \in BOOLEAN : ExecuteQuery(ok)
  \/ \E ok \in BOOLEAN : GenerateAnswer(ok)

SpecRoute == InitRoute /\ [][NextRoute]_vars

\* local validation found the generated SQL valid
GeneratedIsValid ==
  _local_validation(route.validation_rules, route.generated).is_valid

RefinementAttempted == "llm" \in DOMAIN route.refinement

\* the query the language model returned for the refinement prompt
RefinedSQL == _extract_sql_from_text(route.refinement.llm)

\* the refinement succeeded: the model answered, its query passed local
\* validation and the agent did not reject it
RefinementSucceeded ==
  /\ RefinementAttempted
  /\ route.refinement.llm # <<"raise">>
  /\ _local_validation(route.validation_rules, RefinedSQL).is_valid
  /\ _agent_validation(route.refinement.agent).is_valid

\* validate_and_refine_query has returned and the route has acted on it
RouteDecided ==
  /\ "is_valid" \in DOMAIN route.validation_result
  /\ route.pc # "decide"

(***************************************************************************)
(* C29.  In the /query and /sql routes, SQL is executed on the database    *)
(* only if local validation found the generated SQL valid or the LLM       *)
(* refinement succeeded, and in the latter case the refined SQL (not the   *)
(* original) is what is executed; when validation fails and refinement     *)
(* does not succeed the route answers HTTP 400 and executes nothing.       *)
(***************************************************************************)
C29_ExecutesValidOrRefinedOnly ==
  /\ Len(route.executed) <= 1
  /\ route.executed # <<>> => GeneratedIsValid \/ RefinementSucceeded
  /\ (route.executed # <<>> /\ RefinementSucceeded) =>
       route.executed = <<RefinedSQL>>
  /\ (route.executed # <<>> /\ ~RefinementSucceeded) =>
       route.executed = <<route.generated>>
  /\ (RouteDecided /\ ~GeneratedIsValid /\ ~RefinementSucceeded) =>
       /\ route.status_code = 400
       /\ route.executed = <<>>
  /\ route.status_code = 400 => route.executed = <<>>

\* a refused query was refined, and the refined one executed and answered
C29_Witness ==
  /\ route.path = "/query"
  /\ route.status_code = 200
  /\ ~GeneratedIsValid
  /\ RefinementSucceeded
  /\ RefinedSQL # route.generated
  /\ route.executed = <<RefinedSQL>>

\* the place of an error in the order of lines 211-228; 0 for anything
\* that is not the error of one of these six steps
PlaceOf(e) ==
  CASE e.type = "TableNotFoundError"
         /\ e.message[1] = "No tables found in the query." -> 1
    [] e.type = "ColumnNotFoundError" -> 2
    [] e.type = "TableNotFoundError"
         /\ e.message[1] = "Tables not found in OMOP CDM: " -> 3
    [] e.type = "UnauthorizedTableError" -> 4
    [] e.type = "UnauthorizedColumnError"
         /\ e.message[1] = "Unauthorized columns in query: " -> 5
    [] e.type = "UnauthorizedColumnError"
         /\ e.message[1] = SourceValueText -> 6
    [] OTHER -> 0

\* a parse error or the NotSelectQueryError
EndsTheTryBlock(e) ==
  e.type \in {"ParseError", "TokenError", "NotSelectQueryError"}

(***************************************************************************)
(* C30.  Every list returned by validate_sql has at most 4 elements, with  *)
(* at most one error per check, always in the fixed order no-tables,       *)
(* no-columns, non-OMOP tables, excluded tables, excluded columns,         *)
(* source-value columns; a parse error or a NotSelectQueryError never      *)
(* appears together with any other error.                                  *)
(***************************************************************************)
C30_AtMostFourErrorsInFixedOrder ==
  ret.outcome = "return" =>
    LET errors == ret.value
    IN /\ Len(errors) <= 4
       /\ IF \E i \in 1..Len(errors) : EndsTheTryBlock(errors[i])
            THEN Len(errors) = 1
            ELSE /\ \A i \in 1..Len(errors) : PlaceOf(errors[i]) # 0
                 /\ \A i, j \in 1..Len(errors) :
                      i < j => PlaceOf(errors[i]) < PlaceOf(errors[j])

\* four errors at once: a table outside OMOP, an excluded table, an
\* excluded column and a source-value column
C30_Witness ==
  /\ ret.outcome = "return"
  /\ Len(ret.value) = 4
  /\ [i \in 1..4 |-> PlaceOf(ret.value[i])] = <<3, 4, 5, 6>>
====
